---- MODULE Spec2Model ----
(***************************************************************************)
(* Model of project-indexer.  Spec and LiveSpec: the batch indexer,        *)
(* Indexer.IndexProject with its per-project cache, the worker pool of     *)
(* processFiles, the embedding provider and the vector store               *)
(* (internal/indexer, internal/vectordb).  ServiceSpec: the retrieval      *)
(* service, its startup probes, handlers, hot reload and shutdown          *)
(* (cmd/retrieval-tool, internal/api, internal/config).  CliSpec: the      *)
(* command line of the indexer (cmd/indexer).                              *)
(***************************************************************************)
EXTENDS Naturals, Integers, Sequences, FiniteSets, Bags, TLC

(***************************************************************************)
(* Bounds of the model.                                                    *)
(***************************************************************************)
MaxEvents == 4
MaxLiveEvents == 2
BatchSize == 2
MaxTopK == 22
MaxConfigs == 2
NumGoroutines == 2  \* goroutines sharing one Cache
MaxCacheOps == 3    \* cache calls started by the goroutines together
MaxLines == 3       \* lines of a TypeScript, PHP or Markdown file
MaxDecls == 3       \* top-level declarations of a Go file
MaxFragLines == 6   \* lines of a file given to the fixed chunker

(***************************************************************************)
(* Program constants.                                                      *)
(***************************************************************************)
workerCount == 4
ProbeAttempts == 30
DefaultTopK == 5
LimitTopK == 20

(* The indexed project and one other project sharing the collection. *)
ProjectID == "p"
OtherProject == "q"

(* Relative paths of the project tree, in the lexical order of WalkDir. *)
PathOrder == <<"a", "b">>
Paths == {PathOrder[i] : i \in 1..Len(PathOrder)}

Absent == <<>>

(* File bytes, written as the (symbol, text) fragments a chunker splits    *)
(* them into.  The last one holds two fragments with the same symbol and   *)
(* the same text, as the fixed chunker produces for repeated blocks.       *)
FileContents ==
    { << <<"f", 1>>, <<"g", 1>> >>,
      << <<"f", 1>>, <<"g", 2>> >>,
      << <<"f", 1>> >>,
      << <<"h", 1>>, <<"h", 1>> >> }

(***************************************************************************)
(* Pure helpers.                                                           *)
(***************************************************************************)
Range(s) == {s[i] : i \in 1..Len(s)}

Min(x, y) == IF x < y THEN x ELSE y

Perms(S) ==
    {s \in [1..Cardinality(S) -> S] :
        \A i, j \in 1..Cardinality(S) : i # j => s[i] # s[j]}

(* SHA-256 of a text: collision free on the texts of the model. *)
HashContent(content) == <<"sha256", content>>

(* hashFile: SHA-256 of the file's bytes. *)
hashFile(bytes) == <<"sha256", bytes>>

(* The first 8 hex digits of a hash; distinct on the hashes of the model. *)
HashPrefix(hash) == <<"h8", hash[2]>>

GenerateChunkID(projectID, filePath, symbol, contentHash) ==
    <<projectID, filePath, symbol, HashPrefix(contentHash)>>

(* Chunker.Chunk: one chunk per fragment, in source order. *)
Chunk(bytes, filePath, projectID) ==
    [i \in 1..Len(bytes) |->
        [ID          |-> GenerateChunkID(projectID, filePath, bytes[i][1],
                                         HashContent(bytes[i][2])),
         Content     |-> bytes[i][2],
         Symbol      |-> bytes[i][1],
         ContentHash |-> HashContent(bytes[i][2]),
         FilePath    |-> filePath,
         ProjectID   |-> projectID]]

ChunkIDsOf(chunks) == [i \in 1..Len(chunks) |-> chunks[i].ID]

(* stringToUUID: the first 16 bytes of SHA-256 of the id, as a UUID. *)
stringToUUID(s) == <<"uuid", s>>

(* A point as the store keeps it: key and payload. *)
PointOf(c) ==
    [uuid         |-> stringToUUID(c.ID),
     original_id  |-> c.ID,
     project_id   |-> c.ProjectID,
     file_path    |-> c.FilePath,
     content_hash |-> c.ContentHash]

(* QdrantClient.Upsert: set semantics by primary key. *)
StoreUpsert(st, points) ==
    {p \in st : p.uuid \notin {q.uuid : q \in Range(points)}} \cup Range(points)

(* QdrantClient.Delete: removes the points whose key is the UUID of an id. *)
StoreDelete(st, ids) ==
    {p \in st : p.uuid \notin {stringToUUID(ids[i]) : i \in 1..Len(ids)}}

(* Variant: the filtered delete removes nothing. *)
StoreDeleteByFilter_Nothing(st, projectID) == st

(* Variant: the filtered delete carries no project_id condition. *)
StoreDeleteByFilter_AllProjects(st, projectID) == {}

(* QdrantClient.DeleteByFilter: removes the points of one project. *)
StoreDeleteByFilter(st, projectID) ==
    {p \in st : ~(projectID # "" => p.project_id = projectID)}

(***************************************************************************)
(* Cache (a map from relative path to entry).                              *)
(***************************************************************************)
EmptyCache == [p \in {} |-> <<>>]

CacheSet(entries, filePath, entry) ==
    [p \in DOMAIN entries \cup {filePath} |->
        IF p = filePath THEN entry ELSE entries[p]]

CacheDelete(entries, filePath) ==
    [p \in DOMAIN entries \ {filePath} |-> entries[p]]

(* Variant: every file is reported as changed. *)
HasChanged_AlwaysChanged(entries, filePath, contentHash) == TRUE

HasChanged(entries, filePath, contentHash) ==
    IF filePath \notin DOMAIN entries THEN TRUE
    ELSE entries[filePath].ContentHash # contentHash

(* The chunk_hashes of an entry, as a map from chunk id to hash: CacheEntry *)
(* has the members ContentHash, ModTime, IndexedAt and ChunkIDs only, so   *)
(* an entry carries no chunk hash.                                         *)
ChunkHashesOf(entry) ==
    IF "ChunkHashes" \in DOMAIN entry THEN entry.ChunkHashes ELSE <<>>

GetChunkIDs(entries, filePath) ==
    IF filePath \notin DOMAIN entries THEN <<>>
    ELSE entries[filePath].ChunkIDs

(***************************************************************************)
(* State.                                                                  *)
(***************************************************************************)
VARIABLES
    fs,            \* the project tree: path -> bytes, or Absent
    cacheFile,     \* {cache.dir}/{project_id}.json: path -> entry
    store,         \* the points of the vector collection
    pc,            \* "idle", "process" (workers and collector run), "finish"
    fullIndex,     \* the fullIndex argument of the current run
    cache,         \* Cache.entries of the current run
    dirty,         \* Cache.dirty
    discovered,    \* files returned by discoverFiles
    queued,        \* filesToProcess as handed to processFiles
    workCh,        \* work channel (closed once filled)
    resultCh,      \* result channel
    resultClosed,  \* close(resultCh) has happened
    widle,         \* number of workers at the head of their range loop
    wheld,         \* bag of the files received by a worker and not yet handled
    wexited,       \* number of workers whose goroutine has returned
    cancelled,     \* ctx.Done() is closed
    allChunks,     \* chunks collected for the batch upsert
    indexed,       \* paths whose result the collector accepted in this run
    procResult,    \* processResult of processFiles
    result,        \* IndexResult
    returned,      \* what the last IndexProject returned: "none", "result", "error"
    calls,         \* provider calls of the current run, in order
    cacheAtStart,  \* the cache as loaded at the start of the run
    storeAtStart,  \* the collection at the start of the run
    prev,          \* summary of the run before the current one
    tree,          \* the tree as the current run found it
    budget,        \* runs, edits and injected failures the environment has left
    otherCacheFile,\* {cache.dir}/{other project}.json
    \* retrieval service (cmd/retrieval-tool, internal/api)
    svcPc,         \* "off", "embProbe", "vdbProbe", "serving", "exited"
    probeI,        \* the loop index i of the running health probe loop
    waited,        \* seconds slept in the running health probe loop
    probed,        \* providers whose startup probe has succeeded
    ctxDone,       \* the context of main is cancelled (SIGINT, SIGTERM)
    exitCode,      \* NotExited, or the code the process exited with
    configFile,    \* version of the configuration file on disk
    mconfig,       \* Manager.config: the version loaded last
    sEmbedder,     \* Server.embedder
    sVectorDB,     \* Server.vectorDB
    closedInst,    \* provider instances on which Close was called
    inflight,      \* the /retrieve request being handled, or NoRequest
    response,      \* the last HTTP response written, or NoResponse
    rcalls,        \* provider calls of the startup or of the last request
    \* indexer CLI (cmd/indexer)
    cliPc,         \* "off", "flags", "validate", "config", ..., "exited"
    cliFlags,      \* the parsed flags
    cliExit,       \* NotExited, or the exit code
    cliLog,        \* the providers contacted and projects indexed, in order
    \* a Cache shared by goroutines (internal/indexer cache)
    cEntries,      \* Cache.entries
    cDirty,        \* Cache.dirty
    mu,            \* Cache.mu: how many hold it for writing, for reading
    disk,          \* the cache file at Cache.path: NoFile or a JSON document
    cStart,        \* the entries NewCache loaded when the cache was created
    gor,           \* what each goroutine is doing with the cache; at is
                   \* Len(lockLog) when HasChanged or Save took the lock
    lockLog,       \* the writes, in the order in which they took mu.Lock
    lastRead,      \* what the read that returned last has returned
    savedAt,       \* Len(lockLog) when Save returned nil last, or NotSaved
    reopened,      \* what a second NewCache on the same file has loaded
    opsLeft,       \* cache calls the goroutines may still start
    \* a chunker applied to one file (internal/chunker)
    src,           \* the file: language, lines or declarations, configuration
    cpc,           \* "off", "input" or "chunked"
    syms,          \* the symbols or sections of the file before merging
    out,           \* the chunks Chunk returned
    out2           \* the chunks a second Chunk on the same input returned

vars == <<fs, cacheFile, store, pc, fullIndex, cache, dirty, discovered, queued,
          workCh, resultCh, resultClosed, widle, wheld, wexited, cancelled,
          allChunks,
          indexed, procResult, result, returned, calls, cacheAtStart,
          storeAtStart, prev, tree, budget, otherCacheFile,
          svcPc, probeI, waited, probed, ctxDone, exitCode, configFile, mconfig,
          sEmbedder, sVectorDB, closedInst, inflight, response, rcalls,
          cliPc, cliFlags, cliExit, cliLog,
          cEntries, cDirty, mu, disk, cStart, gor, lockLog, lastRead, savedAt,
          reopened, opsLeft, src, cpc, syms, out, out2>>

indexerVars == <<fs, cacheFile, store, pc, fullIndex, cache, dirty, discovered,
                 queued, workCh, resultCh, resultClosed, widle, wheld, wexited,
                 cancelled, allChunks, indexed, procResult, result, returned,
                 calls, cacheAtStart, storeAtStart, prev, tree, budget,
                 otherCacheFile>>

serviceVars == <<svcPc, probeI, waited, probed, ctxDone, exitCode, configFile,
                 mconfig, sEmbedder, sVectorDB, closedInst, inflight, response,
                 rcalls>>

cliVars == <<cliPc, cliFlags, cliExit, cliLog>>

cacheVars == <<cEntries, cDirty, mu, disk, cStart, gor, lockLog, lastRead,
               savedAt, reopened, opsLeft>>

chunkVars == <<src, cpc, syms, out, out2>>

libVars == <<cacheVars, chunkVars>>

toolVars == <<serviceVars, cliVars, libVars>>

EmptyResult ==
    [FilesScanned |-> 0, FilesIndexed |-> 0, FilesSkipped |-> 0,
     FilesDeleted |-> 0, ChunksCreated |-> 0, ChunksDeleted |-> 0,
     Errors |-> <<>>]

EmptyProcResult == [filesIndexed |-> 0, chunksCreated |-> 0, errors |-> <<>>]

NoPrev ==
    [valid |-> FALSE, full |-> FALSE, cancelled |-> FALSE, returned |-> "none",
     errors |-> <<>>, indexed |-> {}, live |-> {},
     tree |-> [p \in Paths |-> Absent], upsertFailed |-> FALSE]

(* The ids of the live points tagged with a project. *)
LiveIDs(st, projectID) ==
    {p.original_id : p \in {q \in st : q.project_id = projectID}}

(* The ids of the live points of one file of a project. *)
LiveIDsOfFile(st, projectID, filePath) ==
    {p.original_id :
        p \in {q \in st : q.project_id = projectID /\ q.file_path = filePath}}

ForeignPoint ==
    PointOf(Chunk(<< <<"f", 1>> >>, "a", OtherProject)[1])

(* The cache file of the other project, written by a run over its tree. *)
OtherCache ==
    CacheSet(EmptyCache, "a",
             [ContentHash |-> hashFile(<< <<"f", 1>> >>),
              ChunkIDs    |-> <<ForeignPoint.original_id>>])

(* The process has not exited. *)
NotExited == -1

NoProvider == [kind |-> "none", cfg |-> 0]

(* A request body that is not JSON. *)
Malformed ==
    [valid |-> FALSE, project_id |-> <<>>, query |-> <<>>, top_k |-> <<>>,
     filters |-> <<>>]

(* The zero value of RetrieveRequest. *)
ZeroRequest == [ProjectID |-> "", Query |-> "", TopK |-> 0, Filters |-> <<>>]

NoRequest ==
    [stage |-> "none", route |-> "none", body |-> Malformed,
     req |-> ZeroRequest, emb |-> NoProvider, vdb |-> NoProvider,
     cfgAtStart |-> 0]

NoResponse == [status |-> 0, body |-> <<>>]

NoFlags == [project |-> "", full |-> FALSE, all |-> FALSE]

(* The retrieval service is not running. *)
ServiceOff ==
    /\ svcPc = "off"
    /\ probeI = 0
    /\ waited = 0
    /\ probed = {}
    /\ ctxDone = FALSE
    /\ exitCode = NotExited
    /\ configFile = 1
    /\ mconfig = 0
    /\ sEmbedder = NoProvider
    /\ sVectorDB = NoProvider
    /\ closedInst = {}
    /\ inflight = NoRequest
    /\ response = NoResponse
    /\ rcalls = <<>>

(* The indexer CLI is not running. *)
CliOff ==
    /\ cliPc = "off"
    /\ cliFlags = NoFlags
    /\ cliExit = NotExited
    /\ cliLog = <<>>

Goroutines == 1..NumGoroutines

(* The zero value of CacheEntry. *)
ZeroEntry == [ContentHash |-> "", ChunkIDs |-> <<>>]

(* A goroutine that is not inside a cache call. *)
IdleOp ==
    [op |-> "idle", stage |-> "none", path |-> "", entry |-> ZeroEntry,
     hash |-> "", at |-> 0, visited |-> {}, total |-> 0, got |-> EmptyCache]

(* No file at Cache.path. *)
NoFile == [exists |-> FALSE, project_id |-> "", files |-> EmptyCache]

NoRead == [op |-> "none", path |-> "", hash |-> "", at |-> 0, value |-> <<>>]

(* Save has not returned nil yet. *)
NotSaved == -1

NotReopened ==
    [valid |-> FALSE, entries |-> EmptyCache, live |-> EmptyCache,
     afterSave |-> FALSE]

(* No cache is shared by goroutines. *)
CacheOff ==
    /\ cEntries = EmptyCache
    /\ cDirty = FALSE
    /\ mu = [writers |-> 0, readers |-> 0]
    /\ disk = NoFile
    /\ cStart = EmptyCache
    /\ gor = [g \in Goroutines |-> IdleOp]
    /\ lockLog = <<>>
    /\ lastRead = NoRead
    /\ savedAt = NotSaved
    /\ reopened = NotReopened
    /\ opsLeft = 0

(* The configurations of the model: DefaultConfig scaled down to files of *)
(* a few lines, with and without merging.                                  *)
Configs ==
    {[MinTokens |-> 5, MaxTokens |-> 12, MergeSmallChunks |-> m] :
        m \in BOOLEAN}

NoSource ==
    [lang |-> "none", lines |-> <<>>, decls |-> <<>>,
     cfg |-> [MinTokens |-> 0, MaxTokens |-> 0, MergeSmallChunks |-> FALSE]]

(* No chunker is running. *)
ChunkOff ==
    /\ src = NoSource
    /\ cpc = "off"
    /\ syms = <<>>
    /\ out = <<>>
    /\ out2 = <<>>

LibOff == CacheOff /\ ChunkOff

IndexerInit(n) ==
    /\ fs = [p \in Paths |-> IF p = "a" THEN << <<"f", 1>>, <<"g", 1>> >>
                             ELSE << <<"f", 1>> >>]
    /\ cacheFile = EmptyCache
    /\ store = {ForeignPoint}
    /\ pc = "idle"
    /\ fullIndex = FALSE
    /\ cache = EmptyCache
    /\ dirty = FALSE
    /\ discovered = <<>>
    /\ queued = <<>>
    /\ workCh = <<>>
    /\ resultCh = <<>>
    /\ resultClosed = FALSE
    /\ widle = 0
    /\ wheld = EmptyBag
    /\ wexited = 0
    /\ cancelled = FALSE
    /\ allChunks = <<>>
    /\ indexed = {}
    /\ procResult = EmptyProcResult
    /\ result = EmptyResult
    /\ returned = "none"
    /\ calls = <<>>
    /\ cacheAtStart = EmptyCache
    /\ storeAtStart = {ForeignPoint}
    /\ prev = NoPrev
    /\ tree = [p \in Paths |-> Absent]
    /\ budget = n
    /\ otherCacheFile = OtherCache

InitWith(n) == IndexerInit(n) /\ ServiceOff /\ CliOff /\ LibOff

Init == InitWith(MaxEvents)

(***************************************************************************)
(* The tree is edited between runs: a file is written, created or removed. *)
(***************************************************************************)
Edit(p, bytes) ==
    /\ pc = "idle"
    /\ budget > 0
    /\ bytes # fs[p]
    /\ fs' = [fs EXCEPT ![p] = bytes]
    /\ budget' = budget - 1
    /\ UNCHANGED <<cacheFile, store, pc, fullIndex, cache, dirty, discovered,
                   queued, workCh, resultCh, resultClosed, widle, wheld, wexited,
                   cancelled, allChunks, indexed, procResult, result, returned,
                   calls, cacheAtStart, storeAtStart, prev, tree, otherCacheFile>>
    /\ UNCHANGED toolVars

(***************************************************************************)
(* IndexProject, up to the call of processFiles.                           *)
(***************************************************************************)
Call(op, arg, ok) == [op |-> op, arg |-> arg, ok |-> ok]

(* discoverFiles: the files of the tree, in walk order. *)
discoverFiles(root) == SelectSeq(PathOrder, LAMBDA p : root[p] # Absent)

(* Variant: every cached path is reported as deleted. *)
findDeletedFiles_AllCached(entries, files) == DOMAIN entries

(* findDeletedFiles: cached paths that are no longer in the tree. *)
findDeletedFiles(entries, files) == DOMAIN entries \ Range(files)

(* The tombstone loop of IndexProject over the deleted paths, in the order *)
(* the map iteration produced; delFail holds the paths whose Delete fails. *)
RECURSIVE ReapDeleted(_, _, _)
ReapDeleted(deletedFiles, delFail, acc) ==
    IF deletedFiles = <<>> THEN acc
    ELSE
        LET filePath == Head(deletedFiles)
            chunkIDs == GetChunkIDs(acc.entries, filePath)
            ok       == filePath \notin delFail
            afterDelete ==
                IF Len(chunkIDs) > 0
                THEN [acc EXCEPT
                        !.calls = Append(@, Call("Delete", chunkIDs, ok)),
                        !.store = IF ok THEN StoreDelete(@, chunkIDs) ELSE @,
                        !.errors = IF ok THEN @
                                   ELSE Append(@, <<"delete", filePath>>),
                        !.chunksDeleted = IF ok THEN @ + Len(chunkIDs) ELSE @]
                ELSE acc
        IN ReapDeleted(Tail(deletedFiles), delFail,
                       [afterDelete EXCEPT
                           !.entries = CacheDelete(@, filePath),
                           !.filesDeleted = @ + 1])

(* The change partition loop of IndexProject; hashErr holds the paths whose *)
(* hashFile fails.                                                          *)
RECURSIVE PartitionFiles(_, _, _, _, _, _)
PartitionFiles(files, root, entries, full, hashErr, acc) ==
    IF files = <<>> THEN acc
    ELSE
        LET relPath     == Head(files)
            contentHash == hashFile(root[relPath])
            next ==
                IF relPath \in hashErr
                THEN [acc EXCEPT !.errors = Append(@, <<"hash", relPath>>)]
                ELSE IF ~full /\ ~HasChanged(entries, relPath, contentHash)
                THEN [acc EXCEPT !.skipped = @ + 1]
                ELSE [acc EXCEPT !.queue =
                        Append(@, [relPath |-> relPath,
                                   contentHash |-> contentHash])]
        IN PartitionFiles(Tail(files), root, entries, full, hashErr, next)

(* IndexProject returns (nil, err): the run ends before any file is read. *)
ReturnError(newStore, newCalls, full) ==
    /\ pc' = "idle"
    /\ returned' = "error"
    /\ store' = newStore
    /\ calls' = newCalls
    /\ fullIndex' = full
    /\ result' = EmptyResult
    /\ procResult' = EmptyProcResult
    /\ cache' = EmptyCache
    /\ dirty' = FALSE
    /\ discovered' = <<>>
    /\ queued' = <<>>
    /\ workCh' = <<>>
    /\ resultCh' = <<>>
    /\ resultClosed' = FALSE
    /\ widle' = 0
    /\ wheld' = EmptyBag
    /\ wexited' = 0
    /\ cancelled' = FALSE
    /\ allChunks' = <<>>
    /\ indexed' = {}
    /\ UNCHANGED <<fs, cacheFile>>

(* The summary of the run that has just returned, kept for the next one. *)
Summary ==
    [valid |-> TRUE, full |-> fullIndex, cancelled |-> cancelled,
     returned |-> returned, errors |-> result.Errors, indexed |-> indexed,
     live |-> LiveIDs(store, ProjectID), tree |-> tree,
     upsertFailed |-> \E i \in 1..Len(calls) :
                         calls[i].op = "Upsert" /\ ~calls[i].ok]

(* fail: "none", or the step that makes IndexProject return an error:     *)
(* "load" (NewCache), "clear" (DeleteByFilter), "discover" (discoverFiles). *)
StartRun(full, fail, deleteOrder, delFail, hashErr) ==
    LET loaded  == cacheFile
        cleared == IF full THEN EmptyCache ELSE loaded
        clearCalls ==
            IF full THEN <<Call("DeleteByFilter", ProjectID, fail # "clear")>>
            ELSE <<>>
        clearedStore ==
            IF full /\ fail # "clear"
            THEN StoreDeleteByFilter(store, ProjectID) ELSE store
        files   == discoverFiles(fs)
        reaped  ==
            IF full
            THEN [store |-> clearedStore, entries |-> cleared, errors |-> <<>>,
                  chunksDeleted |-> 0, filesDeleted |-> 0, calls |-> clearCalls]
            ELSE ReapDeleted(deleteOrder, delFail,
                    [store |-> clearedStore, entries |-> cleared,
                     errors |-> <<>>, chunksDeleted |-> 0, filesDeleted |-> 0,
                     calls |-> clearCalls])
        parts   == PartitionFiles(files, fs, reaped.entries, full, hashErr,
                    [errors |-> reaped.errors, skipped |-> 0, queue |-> <<>>])
        nFaults == (IF fail = "none" THEN 0 ELSE 1)
                   + Cardinality(delFail) + Cardinality(hashErr)
    IN
    /\ pc = "idle"
    /\ 1 + nFaults <= budget
    /\ fail = "clear" => full
    /\ fail # "none" => delFail = {} /\ hashErr = {}
    /\ deleteOrder \in
          Perms(IF full \/ fail # "none" THEN {}
                ELSE findDeletedFiles(loaded, files))
    /\ delFail \subseteq
          {p \in Range(deleteOrder) : Len(GetChunkIDs(loaded, p)) > 0}
    /\ hashErr \subseteq Range(files)
    /\ budget' = budget - (1 + nFaults)
    /\ prev' = IF returned = "none" THEN NoPrev ELSE Summary
    /\ cacheAtStart' = loaded
    /\ storeAtStart' = store
    /\ tree' = fs
    /\ UNCHANGED <<otherCacheFile, toolVars>>
    /\ IF fail = "load" THEN ReturnError(store, <<>>, full)
       ELSE IF fail = "clear" THEN ReturnError(store, clearCalls, full)
       ELSE IF fail = "discover" THEN ReturnError(clearedStore, clearCalls, full)
       ELSE
         /\ fullIndex' = full
         /\ store' = reaped.store
         /\ cache' = reaped.entries
         /\ dirty' = (full \/ reaped.filesDeleted > 0)
         /\ calls' = reaped.calls
         /\ discovered' = files
         /\ queued' = parts.queue
         /\ result' = [EmptyResult EXCEPT
                         !.FilesScanned = Len(files),
                         !.FilesSkipped = parts.skipped,
                         !.FilesDeleted = reaped.filesDeleted,
                         !.ChunksDeleted = reaped.chunksDeleted,
                         !.Errors = parts.errors]
         /\ procResult' = EmptyProcResult
         /\ returned' = "none"
         /\ cancelled' = FALSE
         /\ allChunks' = <<>>
         /\ indexed' = {}
         /\ resultCh' = <<>>
         /\ wheld' = EmptyBag
         /\ wexited' = 0
         /\ IF parts.queue = <<>>
            THEN /\ pc' = "finish"
                 /\ workCh' = <<>>
                 /\ resultClosed' = FALSE
                 /\ widle' = 0
            ELSE /\ pc' = "process"
                 /\ workCh' = parts.queue
                 /\ resultClosed' = FALSE
                 /\ widle' = workerCount
         /\ UNCHANGED <<fs, cacheFile>>

(***************************************************************************)
(* processFiles: the worker goroutines.                                    *)
(***************************************************************************)
workerVarsRest == <<fs, cacheFile, store, fullIndex, cache, dirty, discovered,
                    queued, allChunks, indexed, procResult, result, returned,
                    calls, cacheAtStart, storeAtStart, prev, tree,
                    otherCacheFile, toolVars>>

(* "for file := range workCh": a worker receives its next file. *)
WorkerTake ==
    /\ pc = "process"
    /\ widle > 0
    /\ workCh # <<>>
    /\ widle' = widle - 1
    /\ wheld' = wheld (+) SetToBag({Head(workCh)})
    /\ workCh' = Tail(workCh)
    /\ UNCHANGED <<pc, resultCh, resultClosed, wexited, cancelled, budget>>
    /\ UNCHANGED workerVarsRest

(* The work channel is closed and drained: a worker's range loop ends. *)
WorkerExit ==
    /\ pc = "process"
    /\ widle > 0
    /\ workCh = <<>>
    /\ widle' = widle - 1
    /\ wexited' = wexited + 1
    /\ UNCHANGED <<pc, workCh, resultCh, resultClosed, wheld, cancelled, budget>>
    /\ UNCHANGED workerVarsRest

(* Variant: the cancelled worker returns without wg.Done(). *)
WorkerCancelled_NoDone(file) ==
    /\ pc = "process"
    /\ BagIn(file, wheld)
    /\ cancelled
    /\ wheld' = wheld (-) SetToBag({file})
    /\ UNCHANGED <<pc, workCh, resultCh, resultClosed, widle, wexited,
                   cancelled, budget>>
    /\ UNCHANGED <<fs, cacheFile, store, fullIndex, cache, dirty, discovered,
                   queued, allChunks, indexed, procResult, result, returned,
                   calls, cacheAtStart, storeAtStart, prev, tree,
                   otherCacheFile, toolVars>>

(* "case <-ctx.Done(): return": the worker returns with its file unhandled. *)
WorkerCancelled(file) ==
    /\ pc = "process"
    /\ BagIn(file, wheld)
    /\ cancelled
    /\ wheld' = wheld (-) SetToBag({file})
    /\ wexited' = wexited + 1
    /\ UNCHANGED <<pc, workCh, resultCh, resultClosed, widle, cancelled, budget>>
    /\ UNCHANGED workerVarsRest

(* processFile: read and chunk the file; err: the read or the chunker fails. *)
processFile(file, err) ==
    IF err THEN <<>> ELSE Chunk(tree[file.relPath], file.relPath, ProjectID)

(* Variant: the worker processes its file and sends no result. *)
WorkerProcess_NoResult(file, err) ==
    /\ pc = "process"
    /\ BagIn(file, wheld)
    /\ ~cancelled
    /\ err => budget > 0
    /\ wheld' = wheld (-) SetToBag({file})
    /\ widle' = widle + 1
    /\ budget' = IF err THEN budget - 1 ELSE budget
    /\ UNCHANGED <<pc, workCh, resultCh, resultClosed, wexited, cancelled>>
    /\ UNCHANGED workerVarsRest

(* The body of the worker loop: process the file and send its result. *)
WorkerProcess(file, err) ==
    /\ pc = "process"
    /\ BagIn(file, wheld)
    /\ ~cancelled
    /\ Len(resultCh) < Len(queued)
    /\ err => budget > 0
    /\ LET chunks == processFile(file, err)
       IN resultCh' = Append(resultCh,
                         [relPath  |-> file.relPath,
                          chunks   |-> chunks,
                          chunkIDs |-> ChunkIDsOf(chunks),
                          hash     |-> file.contentHash,
                          err      |-> err])
    /\ wheld' = wheld (-) SetToBag({file})
    /\ widle' = widle + 1
    /\ budget' = IF err THEN budget - 1 ELSE budget
    /\ UNCHANGED <<pc, workCh, resultClosed, wexited, cancelled>>
    /\ UNCHANGED workerVarsRest

(* "wg.Wait(); close(resultCh)". *)
CloseResults ==
    /\ pc = "process"
    /\ ~resultClosed
    /\ wexited = workerCount
    /\ resultClosed' = TRUE
    /\ UNCHANGED <<pc, workCh, resultCh, widle, wheld, wexited, cancelled, budget>>
    /\ UNCHANGED workerVarsRest

(* Variant: the cache entry is written before the error is looked at. *)
collectResult_CachesFailedFile(res, acc) ==
    IF res.err
    THEN [acc EXCEPT
            !.result.errors = Append(@, <<"file", res.relPath>>),
            !.entries = CacheSet(@, res.relPath,
                           [ContentHash |-> res.hash, ChunkIDs |-> res.chunkIDs]),
            !.dirty = TRUE]
    ELSE [result    |-> [acc.result EXCEPT
                            !.filesIndexed = @ + 1,
                            !.chunksCreated = @ + Len(res.chunks)],
          allChunks |-> acc.allChunks \o res.chunks,
          entries   |-> CacheSet(acc.entries, res.relPath,
                           [ContentHash |-> res.hash,
                            ChunkIDs    |-> res.chunkIDs]),
          dirty     |-> TRUE,
          indexed   |-> acc.indexed \cup {res.relPath}]

(* The body of the collector loop "for res := range resultCh" for one     *)
(* result: what it makes of the processResult, allChunks and the cache.    *)
collectResult(res, acc) ==
    IF res.err
    THEN [acc EXCEPT !.result.errors = Append(@, <<"file", res.relPath>>)]
    ELSE [result    |-> [acc.result EXCEPT
                            !.filesIndexed = @ + 1,
                            !.chunksCreated = @ + Len(res.chunks)],
          allChunks |-> acc.allChunks \o res.chunks,
          entries   |-> CacheSet(acc.entries, res.relPath,
                           [ContentHash |-> res.hash,
                            ChunkIDs    |-> res.chunkIDs]),
          dirty     |-> TRUE,
          indexed   |-> acc.indexed \cup {res.relPath}]

Collect ==
    /\ pc = "process"
    /\ resultCh # <<>>
    /\ LET next == collectResult(Head(resultCh),
                      [result |-> procResult, allChunks |-> allChunks,
                       entries |-> cache, dirty |-> dirty, indexed |-> indexed])
       IN /\ procResult' = next.result
          /\ allChunks' = next.allChunks
          /\ cache' = next.entries
          /\ dirty' = next.dirty
          /\ indexed' = next.indexed
    /\ resultCh' = Tail(resultCh)
    /\ UNCHANGED <<fs, cacheFile, store, pc, fullIndex, discovered, queued,
                   workCh, resultClosed, widle, wheld, wexited, cancelled, result,
                   returned, calls, cacheAtStart, storeAtStart, prev, tree,
                   budget, otherCacheFile, toolVars>>

(* The context is cancelled (SIGINT, SIGTERM) while files are processed. *)
Cancel ==
    /\ pc = "process"
    /\ ~cancelled
    /\ budget > 0
    /\ cancelled' = TRUE
    /\ budget' = budget - 1
    /\ UNCHANGED <<pc, workCh, resultCh, resultClosed, widle, wheld, wexited>>
    /\ UNCHANGED workerVarsRest

(***************************************************************************)
(* processFiles after the collector loop, and the end of IndexProject.     *)
(***************************************************************************)
NumBatches(n) == (n + BatchSize - 1) \div BatchSize

(* The texts of batch k (1-based) of upsertChunks, as the chunks they are of. *)
BatchOf(chunks, k) ==
    SubSeq(chunks, (k - 1) * BatchSize + 1, Min(k * BatchSize, Len(chunks)))

(* The EmbedBatch calls of upsertChunks: every batch when failAt = 0, else *)
(* the batches up to failAt, whose call fails.                             *)
EmbedCalls(chunks, failAt) ==
    [k \in 1..(IF failAt = 0 THEN NumBatches(Len(chunks)) ELSE failAt) |->
        Call("EmbedBatch", BatchOf(chunks, k), k # failAt)]

(* The points upsertChunks builds, one per chunk. *)
PointsOf(chunks) == [i \in 1..Len(chunks) |-> PointOf(chunks[i])]

(* Variant: when a batch fails, the chunks embedded so far are upserted. *)
upsertChunks_Partial(st, chunks, failAt, upsertOk) ==
    IF Len(chunks) = 0
    THEN [calls |-> <<>>, store |-> st, err |-> FALSE]
    ELSE LET done == IF failAt = 0 THEN chunks
                     ELSE SubSeq(chunks, 1, (failAt - 1) * BatchSize)
         IN [calls |-> IF done = <<>> THEN EmbedCalls(chunks, failAt)
                       ELSE Append(EmbedCalls(chunks, failAt),
                                   Call("Upsert", PointsOf(done), upsertOk)),
             store |-> IF upsertOk THEN StoreUpsert(st, PointsOf(done)) ELSE st,
             err   |-> failAt # 0 \/ ~upsertOk]

(* Variant: after the upsert, the ids of the upserted chunks are deleted. *)
upsertChunks_ThenDelete(st, chunks, failAt, upsertOk) ==
    IF Len(chunks) = 0
    THEN [calls |-> <<>>, store |-> st, err |-> FALSE]
    ELSE IF failAt # 0
    THEN [calls |-> EmbedCalls(chunks, failAt), store |-> st, err |-> TRUE]
    ELSE [calls |-> EmbedCalls(chunks, 0)
                    \o <<Call("Upsert", PointsOf(chunks), upsertOk),
                         Call("Delete", ChunkIDsOf(chunks), TRUE)>>,
          store |-> IF upsertOk THEN StoreUpsert(st, PointsOf(chunks)) ELSE st,
          err   |-> ~upsertOk]

(* upsertChunks: the calls it makes, the collection it leaves, its error. *)
upsertChunks(st, chunks, failAt, upsertOk) ==
    IF Len(chunks) = 0
    THEN [calls |-> <<>>, store |-> st, err |-> FALSE]
    ELSE IF failAt # 0
    THEN [calls |-> EmbedCalls(chunks, failAt), store |-> st, err |-> TRUE]
    ELSE [calls |-> Append(EmbedCalls(chunks, 0),
                           Call("Upsert", PointsOf(chunks), upsertOk)),
          store |-> IF upsertOk THEN StoreUpsert(st, PointsOf(chunks)) ELSE st,
          err   |-> ~upsertOk]

(* NewCache: the path of a project's cache file. *)
CachePath(cacheDir, projectID) == <<cacheDir, projectID, ".json">>

(* Cache.Save: writes the file when the cache is dirty. *)
CacheSave(file, entries, isDirty, saveOk) ==
    IF isDirty /\ saveOk THEN entries ELSE file

FinishRun(failAt, upsertOk, saveOk) ==
    LET up == IF Len(allChunks) > 0
              THEN upsertChunks(store, allChunks, failAt, upsertOk)
              ELSE [calls |-> <<>>, store |-> store, err |-> FALSE]
        procErrors == IF up.err
                      THEN Append(procResult.errors, <<"upsert chunks">>)
                      ELSE procResult.errors
        saveErrors == IF dirty /\ ~saveOk THEN << <<"save cache">> >> ELSE <<>>
        nFaults == (IF failAt # 0 /\ ~cancelled THEN 1 ELSE 0)
                   + (IF ~upsertOk THEN 1 ELSE 0) + (IF ~saveOk THEN 1 ELSE 0)
    IN
    /\ \/ pc = "finish"
       \/ pc = "process" /\ resultClosed /\ resultCh = <<>>
    /\ failAt \in 0..NumBatches(Len(allChunks))
    /\ (cancelled /\ Len(allChunks) > 0) => failAt = 1
    /\ ~upsertOk => (Len(allChunks) > 0 /\ failAt = 0)
    /\ ~saveOk => dirty
    /\ nFaults <= budget
    /\ budget' = budget - nFaults
    /\ calls' = calls \o up.calls
    /\ store' = up.store
    /\ procResult' = [procResult EXCEPT !.errors = procErrors]
    /\ result' = [result EXCEPT
                    !.FilesIndexed = procResult.filesIndexed,
                    !.ChunksCreated = procResult.chunksCreated,
                    !.Errors = @ \o procErrors \o saveErrors]
    /\ cacheFile' = CacheSave(cacheFile, cache, dirty, saveOk)
    /\ otherCacheFile' =
          IF CachePath("cache", ProjectID) = CachePath("cache", OtherProject)
          THEN CacheSave(otherCacheFile, cache, dirty, saveOk)
          ELSE otherCacheFile
    /\ pc' = "idle"
    /\ returned' = "result"
    /\ UNCHANGED <<fs, fullIndex, cache, dirty, discovered, queued, workCh,
                   resultCh, resultClosed, widle, wheld, wexited, cancelled,
                   allChunks,
                   indexed, cacheAtStart, storeAtStart, prev, tree>>
    /\ UNCHANGED toolVars

(***************************************************************************)
(* Specification.                                                          *)
(***************************************************************************)
Orders == UNION {Perms(S) : S \in SUBSET Paths}

StartRunAny ==
    \E full \in BOOLEAN, fail \in {"none", "load", "clear", "discover"},
       deleteOrder \in Orders, delFail \in SUBSET Paths, hashErr \in SUBSET Paths :
        StartRun(full, fail, deleteOrder, delFail, hashErr)

Next ==
    \/ \E p \in Paths, bytes \in FileContents \cup {Absent} : Edit(p, bytes)
    \/ StartRunAny
    \/ WorkerTake
    \/ WorkerExit
    \/ \E file \in BagToSet(wheld) : WorkerCancelled(file)
    \/ \E file \in BagToSet(wheld), err \in BOOLEAN : WorkerProcess(file, err)
    \/ CloseResults
    \/ Collect
    \/ Cancel
    \/ \E failAt \in 0..4, upsertOk \in BOOLEAN, saveOk \in BOOLEAN :
          FinishRun(failAt, upsertOk, saveOk)

Spec == Init /\ [][Next]_vars

(* The goroutines of a run are scheduled fairly and the provider calls of  *)
(* its last phase return: every step of a started run is eventually taken. *)
RunProgress ==
    /\ WF_vars(WorkerTake)
    /\ WF_vars(WorkerExit)
    /\ WF_vars(\E file \in BagToSet(wheld) : WorkerCancelled(file))
    /\ WF_vars(\E file \in BagToSet(wheld) : WorkerProcess(file, FALSE))
    /\ WF_vars(CloseResults)
    /\ WF_vars(Collect)
    /\ WF_vars(\E failAt \in 0..4 : FinishRun(failAt, TRUE, TRUE))

LiveSpec == InitWith(MaxLiveEvents) /\ [][Next]_vars /\ RunProgress

(***************************************************************************)
(* Retrieval service: the requests of POST /retrieve.                      *)
(***************************************************************************)
(* A request body: not JSON at all, or an object whose members are given   *)
(* (<<v>>) or left out (<<>>).                                             *)
TopKValues == {<<>>} \cup {<<k>> : k \in -1..MaxTopK}

FilterValues ==
    {<<>>} \cup
    {<<[module |-> m, language |-> l, symbol_type |-> t]>> :
        m \in {"", "core"}, l \in {"", "go"}, t \in {"", "function"}}

RetrieveBodies ==
    {Malformed} \cup
    [valid : {TRUE},
     project_id : {<<>>, <<ProjectID>>, <<OtherProject>>},
     query : {<<>>, <<"how">>},
     top_k : TopKValues,
     filters : FilterValues]

(* A member of the decoded struct: the given value, or the zero value. *)
Member(opt, zero) == IF opt = <<>> THEN zero ELSE opt[1]

(* json.Decode into RetrieveRequest. *)
Decode(body) ==
    [ProjectID |-> Member(body.project_id, ""),
     Query     |-> Member(body.query, ""),
     TopK      |-> Member(body.top_k, 0),
     Filters   |-> body.filters]

(* Variant: a request without query is accepted. *)
ValidateRetrieve_NoQueryCheck(body) ==
    IF ~body.valid THEN "invalid request body"
    ELSE IF Decode(body).ProjectID = "" THEN "project_id is required"
    ELSE ""

(* handleRetrieve, parsing and validation: the message of the 400 response, *)
(* or "" when the request is accepted.                                      *)
ValidateRetrieve(body) ==
    IF ~body.valid THEN "invalid request body"
    ELSE IF Decode(body).ProjectID = "" THEN "project_id is required"
    ELSE IF Decode(body).Query = "" THEN "query is required"
    ELSE ""

(* Variant: only the default is applied. *)
ClampTopK_NoMax(topK) == IF topK <= 0 THEN DefaultTopK ELSE topK

(* handleRetrieve, "Apply defaults". *)
ClampTopK(topK) ==
    LET defaulted == IF topK <= 0 THEN DefaultTopK ELSE topK
    IN IF defaulted > LimitTopK THEN LimitTopK ELSE defaulted

(* handleRetrieve, "Build search filter". *)
BuildFilter(req) ==
    IF req.Filters = <<>>
    THEN [ProjectID |-> req.ProjectID, Module |-> "", Language |-> "",
          SymbolType |-> ""]
    ELSE [ProjectID  |-> req.ProjectID,
          Module     |-> req.Filters[1].module,
          Language   |-> req.Filters[1].language,
          SymbolType |-> req.Filters[1].symbol_type]

Condition(key, value) ==
    IF value # "" THEN <<[Key |-> key, Match |-> value]>> ELSE <<>>

(* Variant: the project_id condition is left out of the request. *)
QdrantSearchRequest_NoProject(query) ==
    [Limit |-> query.TopK,
     Must  |-> Condition("module", query.Filter.Module)
               \o Condition("language", query.Filter.Language)
               \o Condition("symbol_type", query.Filter.SymbolType)]

(* QdrantClient.Search: the request body sent to the collection. *)
QdrantSearchRequest(query) ==
    [Limit |-> query.TopK,
     Must  |-> Condition("project_id", query.Filter.ProjectID)
               \o Condition("module", query.Filter.Module)
               \o Condition("language", query.Filter.Language)
               \o Condition("symbol_type", query.Filter.SymbolType)]

(* writeError: the body of an error response. *)
writeError(status, message) ==
    [status |-> status, body |-> [error |-> message]]

(***************************************************************************)
(* Retrieval service: startup (main of cmd/retrieval-tool).                *)
(***************************************************************************)
Provider(kind, cfg) == [kind |-> kind, cfg |-> cfg]

(* The service has loaded its configuration and created the embedder. *)
ServiceInit ==
    /\ IndexerInit(0)
    /\ CliOff
    /\ LibOff
    /\ svcPc = "embProbe"
    /\ probeI = 0
    /\ waited = 0
    /\ probed = {}
    /\ ctxDone = FALSE
    /\ exitCode = NotExited
    /\ configFile = 1
    /\ mconfig = 1
    /\ sEmbedder = NoProvider
    /\ sVectorDB = NoProvider
    /\ closedInst = {}
    /\ inflight = NoRequest
    /\ response = NoResponse
    /\ rcalls = <<>>

(* Variant: after the last failed probe the loop ends like after a success. *)
ProbeOutcome_NoGiveUp(healthy, i, done) ==
    IF healthy \/ i = ProbeAttempts - 1 THEN "break"
    ELSE IF done THEN "exit0"
    ELSE "sleep"

(* One iteration of a health probe loop, after its Health call: leave the  *)
(* loop, exit with 1 or 0, or sleep and iterate.                           *)
ProbeOutcome(healthy, i, done) ==
    IF healthy THEN "break"
    ELSE IF i = ProbeAttempts - 1 THEN "exit1"
    ELSE IF done THEN "exit0"
    ELSE "sleep"

(* ok: the provider is ready; interrupted: SIGINT or SIGTERM arrives while *)
(* the iteration sleeps, which ends the sleep early.  A Health call under  *)
(* a cancelled context fails.  rcalls logs the Health calls of the startup *)
(* until the server starts.                                                *)
StartupProbe(ok, interrupted) ==
    LET provider == IF svcPc = "embProbe" THEN "embedder" ELSE "vectordb"
        healthy  == ok /\ ~ctxDone
        outcome  == ProbeOutcome(healthy, probeI, ctxDone)
    IN
    /\ svcPc \in {"embProbe", "vdbProbe"}
    /\ probeI < ProbeAttempts
    /\ ok => ~ctxDone
    /\ interrupted => (outcome = "sleep")
    /\ rcalls' = IF outcome = "break" /\ svcPc = "vdbProbe" THEN <<>>
                 ELSE Append(rcalls, Call("Health", provider, healthy))
    /\ probed' = IF healthy THEN probed \cup {provider} ELSE probed
    /\ IF outcome = "break"
       THEN /\ probeI' = 0
            /\ waited' = 0
            /\ UNCHANGED <<ctxDone, exitCode>>
            /\ IF svcPc = "embProbe"
               THEN /\ svcPc' = "vdbProbe"
                    /\ UNCHANGED <<sEmbedder, sVectorDB>>
               ELSE /\ svcPc' = "serving"
                    /\ sEmbedder' = Provider("embedder", mconfig)
                    /\ sVectorDB' = Provider("vectordb", mconfig)
       ELSE IF outcome \in {"exit1", "exit0"}
       THEN /\ svcPc' = "exited"
            /\ exitCode' = IF outcome = "exit1" THEN 1 ELSE 0
            /\ UNCHANGED <<probeI, waited, ctxDone, sEmbedder, sVectorDB>>
       ELSE /\ probeI' = probeI + 1
            /\ waited' = IF interrupted THEN waited ELSE waited + 1
            /\ ctxDone' = (ctxDone \/ interrupted)
            /\ UNCHANGED <<svcPc, exitCode, sEmbedder, sVectorDB>>
    /\ UNCHANGED <<configFile, mconfig, closedInst, inflight, response>>
    /\ UNCHANGED <<indexerVars, cliVars, libVars>>

(* SIGINT or SIGTERM: the signal goroutine of main cancels the context. *)
ServiceSignal ==
    /\ svcPc \in {"embProbe", "vdbProbe", "serving"}
    /\ ~ctxDone
    /\ ctxDone' = TRUE
    /\ UNCHANGED <<svcPc, probeI, waited, probed, exitCode, configFile, mconfig,
                   sEmbedder, sVectorDB, closedInst, inflight, response, rcalls>>
    /\ UNCHANGED <<indexerVars, cliVars, libVars>>

(***************************************************************************)
(* Retrieval service: hot reload and shutdown (internal/api/server.go).    *)
(***************************************************************************)
(* Manager.onChange: NewManager creates it empty and nothing in the        *)
(* repository calls Manager.OnChange.                                      *)
onChange == <<>>

(* Server.UpdateProviders: close the old instances, install the new ones. *)
UpdateProviders(srv, emb, vdb) ==
    [embedder |-> emb,
     vectorDB |-> vdb,
     closed   |-> srv.closed \cup ({srv.embedder, srv.vectorDB} \ {NoProvider})]

(* Manager.Reload, "Notify change listeners". *)
RECURSIVE NotifyOnChange(_, _, _)
NotifyOnChange(listeners, cfg, srv) ==
    IF listeners = <<>> THEN srv
    ELSE NotifyOnChange(Tail(listeners), cfg,
            IF Head(listeners) = "UpdateProviders"
            THEN UpdateProviders(srv, Provider("embedder", cfg),
                                 Provider("vectordb", cfg))
            ELSE srv)

(* The configuration file is edited on disk. *)
EditConfig ==
    /\ svcPc = "serving"
    /\ configFile < MaxConfigs
    /\ configFile' = configFile + 1
    /\ UNCHANGED <<svcPc, probeI, waited, probed, ctxDone, exitCode, mconfig,
                   sEmbedder, sVectorDB, closedInst, inflight, response, rcalls>>
    /\ UNCHANGED <<indexerVars, cliVars, libVars>>

(* SIGHUP: the goroutine of setupHotReload calls Manager.Reload; loadOk:   *)
(* the file is read, parsed and validated.                                 *)
Sighup(loadOk) ==
    LET srv == NotifyOnChange(onChange, configFile,
                  [embedder |-> sEmbedder, vectorDB |-> sVectorDB,
                   closed |-> closedInst])
    IN
    /\ svcPc = "serving"
    /\ IF loadOk
       THEN /\ mconfig' = configFile
            /\ sEmbedder' = srv.embedder
            /\ sVectorDB' = srv.vectorDB
            /\ closedInst' = srv.closed
       ELSE UNCHANGED <<mconfig, sEmbedder, sVectorDB, closedInst>>
    /\ UNCHANGED <<svcPc, probeI, waited, probed, ctxDone, exitCode, configFile,
                   inflight, response, rcalls>>
    /\ UNCHANGED <<indexerVars, cliVars, libVars>>

(* Server.Start returns through shutdown once the context is cancelled and *)
(* the handlers have returned; main returns.                               *)
Shutdown ==
    /\ svcPc = "serving"
    /\ ctxDone
    /\ inflight.stage \notin {"embed", "search"}
    /\ closedInst' = closedInst \cup {sEmbedder, sVectorDB}
    /\ svcPc' = "exited"
    /\ exitCode' = 0
    /\ UNCHANGED <<probeI, waited, probed, ctxDone, configFile, mconfig,
                   sEmbedder, sVectorDB, inflight, response, rcalls>>
    /\ UNCHANGED <<indexerVars, cliVars, libVars>>

(***************************************************************************)
(* Retrieval service: the handlers (internal/api/handlers.go).  One        *)
(* request is followed at a time.                                          *)
(***************************************************************************)
handlerVarsRest == <<svcPc, probeI, waited, probed, ctxDone, exitCode,
                     configFile, mconfig, sEmbedder, sVectorDB, closedInst>>

Handling == inflight.stage \in {"embed", "search"}

(* No request is being followed: the last one was answered and read. *)
Quiet == inflight = NoRequest

(* handleRetrieve up to getProviders: decode, validate, apply defaults. *)
RetrieveStart(body) ==
    LET message == ValidateRetrieve(body)
        decoded == Decode(body)
    IN
    /\ svcPc = "serving"
    /\ Quiet
    /\ rcalls' = <<>>
    /\ IF message # ""
       THEN /\ response' = writeError(400, message)
            /\ inflight' = [NoRequest EXCEPT
                               !.stage = "done", !.route = "retrieve",
                               !.body = body, !.cfgAtStart = mconfig]
       ELSE /\ response' = NoResponse
            /\ inflight' =
                  [stage |-> "embed", route |-> "retrieve", body |-> body,
                   req |-> [decoded EXCEPT !.TopK = ClampTopK(decoded.TopK)],
                   emb |-> sEmbedder, vdb |-> sVectorDB,
                   cfgAtStart |-> mconfig]
    /\ UNCHANGED handlerVarsRest
    /\ UNCHANGED <<indexerVars, cliVars, libVars>>

(* "queryVector, err := emb.Embed(ctx, req.Query)". *)
RetrieveEmbed(ok) ==
    /\ svcPc = "serving"
    /\ inflight.stage = "embed"
    /\ rcalls' = Append(rcalls,
                    Call("Embed", [provider |-> inflight.emb,
                                   text |-> inflight.req.Query], ok))
    /\ IF ok
       THEN /\ inflight' = [inflight EXCEPT !.stage = "search"]
            /\ UNCHANGED response
       ELSE /\ inflight' = [inflight EXCEPT !.stage = "done"]
            /\ response' = writeError(500, "failed to process query")
    /\ UNCHANGED handlerVarsRest
    /\ UNCHANGED <<indexerVars, cliVars, libVars>>

(* The SearchQuery handleRetrieve passes to Search. *)
SearchQueryOf(req) ==
    [Vector |-> <<"vector", req.Query>>,
     TopK   |-> req.TopK,
     Filter |-> BuildFilter(req)]

(* "searchResults, err := vdb.Search(ctx, ...)" and the response. *)
RetrieveSearch(ok) ==
    LET query == SearchQueryOf(inflight.req)
    IN
    /\ svcPc = "serving"
    /\ inflight.stage = "search"
    /\ rcalls' = Append(rcalls,
                    Call("Search", [provider |-> inflight.vdb,
                                    query    |-> query,
                                    request  |-> QdrantSearchRequest(query)],
                         ok))
    /\ inflight' = [inflight EXCEPT !.stage = "done"]
    /\ response' = IF ok
                   THEN [status |-> 200, body |-> [results |-> "results"]]
                   ELSE writeError(500, "search failed")
    /\ UNCHANGED handlerVarsRest
    /\ UNCHANGED <<indexerVars, cliVars, libVars>>

(* Variant: the health endpoint always answers 200. *)
HealthResponse_Always200(embOk, vdbOk) ==
    [status |-> 200,
     body   |-> [status     |-> IF embOk /\ vdbOk THEN "healthy" ELSE "degraded",
                 components |-> [embedder |-> IF embOk THEN "ok" ELSE "error",
                                 vectordb |-> IF vdbOk THEN "ok" ELSE "error"],
                 version    |-> "1.0.0"]]

(* handleHealth: the response for the outcomes of the two probes. *)
HealthResponse(embOk, vdbOk) ==
    LET status == IF embOk /\ vdbOk THEN "healthy" ELSE "degraded"
    IN [status |-> IF status # "healthy" THEN 503 ELSE 200,
        body   |-> [status     |-> status,
                    components |-> [embedder |-> IF embOk THEN "ok" ELSE "error",
                                    vectordb |-> IF vdbOk THEN "ok" ELSE "error"],
                    version    |-> "1.0.0"]]

handleHealth(embOk, vdbOk) ==
    /\ svcPc = "serving"
    /\ Quiet
    /\ rcalls' = <<Call("Health", sEmbedder, embOk),
                   Call("Health", sVectorDB, vdbOk)>>
    /\ response' = HealthResponse(embOk, vdbOk)
    /\ inflight' = [NoRequest EXCEPT
                       !.stage = "done", !.route = "health",
                       !.cfgAtStart = mconfig]
    /\ UNCHANGED handlerVarsRest
    /\ UNCHANGED <<indexerVars, cliVars, libVars>>

(* The handler has returned and the client has read the response. *)
ResponseRead ==
    /\ svcPc = "serving"
    /\ inflight.stage = "done"
    /\ inflight' = NoRequest
    /\ response' = NoResponse
    /\ rcalls' = <<>>
    /\ UNCHANGED handlerVarsRest
    /\ UNCHANGED <<indexerVars, cliVars, libVars>>

ServiceNext ==
    \/ \E ok \in BOOLEAN, interrupted \in BOOLEAN : StartupProbe(ok, interrupted)
    \/ ServiceSignal
    \/ EditConfig
    \/ \E loadOk \in BOOLEAN : Sighup(loadOk)
    \/ Shutdown
    \/ \E body \in RetrieveBodies : RetrieveStart(body)
    \/ \E ok \in BOOLEAN : RetrieveEmbed(ok)
    \/ \E ok \in BOOLEAN : RetrieveSearch(ok)
    \/ \E embOk \in BOOLEAN, vdbOk \in BOOLEAN : handleHealth(embOk, vdbOk)
    \/ ResponseRead

ServiceSpec == ServiceInit /\ [][ServiceNext]_vars

(***************************************************************************)
(* The server with a caller of UpdateProviders.  The method is exported    *)
(* "for hot reload" and nothing in the repository calls it; here a change  *)
(* listener calls it, after a reload, with instances built from the        *)
(* configuration just loaded, while handlers run.                          *)
(***************************************************************************)
SwapProviders ==
    LET srv == UpdateProviders([embedder |-> sEmbedder, vectorDB |-> sVectorDB,
                                closed |-> closedInst],
                               Provider("embedder", mconfig),
                               Provider("vectordb", mconfig))
    IN
    /\ svcPc = "serving"
    /\ sEmbedder # Provider("embedder", mconfig)
    /\ sEmbedder' = srv.embedder
    /\ sVectorDB' = srv.vectorDB
    /\ closedInst' = srv.closed
    /\ UNCHANGED <<svcPc, probeI, waited, probed, ctxDone, exitCode, configFile,
                   mconfig, inflight, response, rcalls>>
    /\ UNCHANGED <<indexerVars, cliVars, libVars>>

HotSwapNext ==
    \/ ServiceNext
    \/ SwapProviders

HotSwapSpec == ServiceInit /\ [][HotSwapNext]_vars

(***************************************************************************)
(* Indexer CLI (main of cmd/indexer).                                      *)
(***************************************************************************)
(* The projects of the configuration directory. *)
ConfiguredProjects == {ProjectID, OtherProject}

(* What IndexProject gives for one project: a result without errors, a    *)
(* result that lists errors, or an error.                                  *)
IndexOutcomes == {"ok", "errors", "err"}

CliInit ==
    /\ IndexerInit(0)
    /\ ServiceOff
    /\ LibOff
    /\ cliPc = "flags"
    /\ cliFlags = NoFlags
    /\ cliExit = NotExited
    /\ cliLog = <<>>

CliExit(code) ==
    /\ cliPc' = "exited"
    /\ cliExit' = code

(* flag.Parse. *)
ParseFlags(project, full, all) ==
    /\ cliPc = "flags"
    /\ cliFlags' = [project |-> project, full |-> full, all |-> all]
    /\ cliPc' = "validate"
    /\ UNCHANGED <<cliExit, cliLog>>
    /\ UNCHANGED <<indexerVars, serviceVars, libVars>>

(* main, "Validate flags": the invocations main rejects. *)
FlagsRejected(flags) == flags.project = "" /\ ~flags.all

ValidateFlags ==
    /\ cliPc = "validate"
    /\ IF FlagsRejected(cliFlags) THEN CliExit(1)
       ELSE cliPc' = "config" /\ UNCHANGED cliExit
    /\ UNCHANGED <<cliFlags, cliLog>>
    /\ UNCHANGED <<indexerVars, serviceVars, libVars>>

(* config.LoadFromEnv. *)
LoadConfig(ok) ==
    /\ cliPc = "config"
    /\ IF ok THEN cliPc' = "embedder" /\ UNCHANGED cliExit ELSE CliExit(1)
    /\ UNCHANGED <<cliFlags, cliLog>>
    /\ UNCHANGED <<indexerVars, serviceVars, libVars>>

(* embedder.NewProvider and emb.Health; vectordb.NewProvider and vdb.Health. *)
Connect(newOk, healthOk) ==
    /\ cliPc \in {"embedder", "vectordb"}
    /\ ~newOk => healthOk
    /\ cliLog' = IF newOk THEN Append(cliLog, <<"Health", cliPc>>) ELSE cliLog
    /\ IF newOk /\ healthOk
       THEN /\ cliPc' = IF cliPc = "embedder" THEN "vectordb" ELSE "ensure"
            /\ UNCHANGED cliExit
       ELSE CliExit(1)
    /\ UNCHANGED cliFlags
    /\ UNCHANGED <<indexerVars, serviceVars, libVars>>

(* idx.EnsureCollection. *)
EnsureCollection(ok) ==
    /\ cliPc = "ensure"
    /\ cliLog' = Append(cliLog, <<"EnsureCollection", "vectordb">>)
    /\ IF ok THEN cliPc' = "index" /\ UNCHANGED cliExit ELSE CliExit(1)
    /\ UNCHANGED cliFlags
    /\ UNCHANGED <<indexerVars, serviceVars, libVars>>

(* main, "Run indexing" with --all: IndexAllProjects over the projects in  *)
(* map order; outcome gives what IndexProject returns for each project.    *)
IndexAll(loadOk, order, outcome) ==
    /\ cliPc = "index"
    /\ cliFlags.all
    /\ IF loadOk
       THEN /\ cliLog' = cliLog \o
                  [i \in 1..Len(order) |->
                      <<"IndexProject", order[i], cliFlags.full>>]
            /\ CliExit(IF \E p \in ConfiguredProjects : outcome[p] # "ok"
                       THEN 1 ELSE 0)
       ELSE /\ outcome = [p \in ConfiguredProjects |-> "ok"]
            /\ UNCHANGED cliLog
            /\ CliExit(1)
    /\ UNCHANGED cliFlags
    /\ UNCHANGED <<indexerVars, serviceVars, libVars>>

(* main, "Index single project": config.GetProject, then IndexProject. *)
IndexOne(outcome) ==
    /\ cliPc = "index"
    /\ ~cliFlags.all
    /\ IF cliFlags.project \in ConfiguredProjects
       THEN /\ cliLog' = Append(cliLog,
                            <<"IndexProject", cliFlags.project, cliFlags.full>>)
            /\ CliExit(IF outcome = "ok" THEN 0 ELSE 1)
       ELSE /\ outcome = "ok"
            /\ UNCHANGED cliLog
            /\ CliExit(1)
    /\ UNCHANGED cliFlags
    /\ UNCHANGED <<indexerVars, serviceVars, libVars>>

CliNext ==
    \/ \E project \in {""} \cup ConfiguredProjects \cup {"unknown"},
          full \in BOOLEAN, all \in BOOLEAN : ParseFlags(project, full, all)
    \/ ValidateFlags
    \/ \E ok \in BOOLEAN : LoadConfig(ok)
    \/ \E newOk \in BOOLEAN, healthOk \in BOOLEAN : Connect(newOk, healthOk)
    \/ \E ok \in BOOLEAN : EnsureCollection(ok)
    \/ \E loadOk \in BOOLEAN, order \in Perms(ConfiguredProjects),
          outcome \in [ConfiguredProjects -> IndexOutcomes] :
            IndexAll(loadOk, order, outcome)
    \/ \E outcome \in IndexOutcomes : IndexOne(outcome)

CliSpec == CliInit /\ [][CliNext]_vars


(***************************************************************************)
(* A Cache shared by goroutines: NewCache over an existing or a missing    *)
(* file, then calls of Set, Delete, Clear, Get, GetAllFiles, Stats,        *)
(* HasChanged and Save from several goroutines, and a second NewCache over *)
(* the same file.  ModTime and IndexedAt are left out of the entries.      *)
(***************************************************************************)
(* The entries the cache tests use. *)
TestEntries ==
    {[ContentHash |-> "hash1", ChunkIDs |-> <<"chunk1">>],
     [ContentHash |-> "hash2", ChunkIDs |-> <<"chunk2", "chunk3">>]}

(* Variant: the chunk ids are not written. *)
MarshalEntry_OmitChunkIDs(entry) ==
    [content_hash |-> entry.ContentHash, chunk_ids |-> <<>>]

(* json.Marshal of a CacheEntry: its members under their json names. *)
MarshalEntry(entry) ==
    [content_hash |-> entry.ContentHash, chunk_ids |-> entry.ChunkIDs]

(* The CacheFile document Save marshals. *)
MarshalCacheFile(projectID, entries) ==
    [exists |-> TRUE, project_id |-> projectID,
     files |-> [p \in DOMAIN entries |-> MarshalEntry(entries[p])]]

(* Cache.Save: nothing is written unless the cache is dirty; the document *)
(* replaces the file by a rename.                                          *)
SaveFile(file, projectID, entries, isDirty, ok) ==
    IF isDirty /\ ok THEN MarshalCacheFile(projectID, entries) ELSE file

(* NewCache and Cache.load: an empty map unless the file exists. *)
load(file) ==
    LET
        (* json.Unmarshal into a CacheEntry. *)
        UnmarshalEntry(obj) ==
            [ContentHash |-> obj.content_hash, ChunkIDs |-> obj.chunk_ids]
    IN
        IF ~file.exists THEN EmptyCache
        ELSE [p \in DOMAIN file.files |-> UnmarshalEntry(file.files[p])]

(* Cache.Get: the entry and whether it exists. *)
Get(entries, filePath) ==
    IF filePath \in DOMAIN entries THEN <<entries[filePath], TRUE>>
    ELSE <<ZeroEntry, FALSE>>

(* Variant: Lock waits for the writers only. *)
CanLock_AsRLock(m) == m.writers = 0

(* sync.RWMutex: Lock is granted when nobody holds the mutex, RLock when *)
(* no writer holds it.                                                    *)
CanLock(m) == m.writers = 0 /\ m.readers = 0

CanRLock(m) == m.writers = 0

WriteOps == {"Set", "Delete", "Clear"}

RangeOps == {"GetAllFiles", "Stats"}

(* The calls a goroutine may make. *)
CacheCalls ==
    {[op |-> "Set", path |-> p, entry |-> e, hash |-> ""] :
        p \in Paths, e \in TestEntries}
    \cup {[op |-> o, path |-> p, entry |-> ZeroEntry, hash |-> ""] :
            o \in {"Delete", "Get"}, p \in Paths}
    \cup {[op |-> o, path |-> "", entry |-> ZeroEntry, hash |-> ""] :
            o \in {"Clear", "GetAllFiles", "Stats", "Save"}}
    \cup {[op |-> "HasChanged", path |-> p, entry |-> ZeroEntry, hash |-> h] :
            p \in Paths, h \in {"hash1"}}

(* The map after one write. *)
ApplyWrite(entries, w) ==
    CASE w.op = "Set"    -> CacheSet(entries, w.path, w.entry)
      [] w.op = "Delete" -> CacheDelete(entries, w.path)
      [] w.op = "Clear"  -> EmptyCache

CacheInit ==
    /\ IndexerInit(0)
    /\ ServiceOff
    /\ CliOff
    /\ disk \in {NoFile} \cup
               {MarshalCacheFile(ProjectID, CacheSet(EmptyCache, "a", e)) :
                    e \in TestEntries}
    /\ cEntries = load(disk)
    /\ cStart = cEntries
    /\ cDirty = FALSE
    /\ mu = [writers |-> 0, readers |-> 0]
    /\ gor = [g \in Goroutines |-> IdleOp]
    /\ lockLog = <<>>
    /\ lastRead = NoRead
    /\ savedAt = NotSaved
    /\ reopened = NotReopened
    /\ opsLeft = MaxCacheOps
    /\ ChunkOff

cacheRest == <<indexerVars, serviceVars, cliVars, chunkVars>>

(* A goroutine calls a method of the cache. *)
Go(g, c) ==
    /\ opsLeft > 0
    /\ gor[g] = IdleOp
    /\ gor' = [gor EXCEPT ![g] =
                 [IdleOp EXCEPT !.op = c.op, !.stage = "lock",
                                !.path = c.path, !.entry = c.entry,
                                !.hash = c.hash]]
    /\ opsLeft' = opsLeft - 1
    /\ UNCHANGED <<cEntries, cDirty, mu, disk, cStart, lockLog, lastRead,
                   savedAt, reopened, cacheRest>>

(* c.mu.Lock() of Set, Delete and Clear. *)
Lock(g) ==
    /\ gor[g].stage = "lock"
    /\ gor[g].op \in WriteOps
    /\ CanLock(mu)
    /\ mu' = [mu EXCEPT !.writers = @ + 1]
    /\ lockLog' = Append(lockLog, [op |-> gor[g].op, path |-> gor[g].path,
                                   entry |-> gor[g].entry])
    /\ gor' = [gor EXCEPT ![g].stage = "write"]
    /\ UNCHANGED <<cEntries, cDirty, disk, cStart, lastRead, savedAt,
                   reopened, opsLeft, cacheRest>>

(* The body of Set, Delete and Clear, and the deferred Unlock. *)
Write(g) ==
    /\ gor[g].stage = "write"
    /\ cEntries' = ApplyWrite(cEntries, gor[g])
    /\ cDirty' = TRUE
    /\ mu' = [mu EXCEPT !.writers = @ - 1]
    /\ gor' = [gor EXCEPT ![g] = IdleOp]
    /\ UNCHANGED <<disk, cStart, lockLog, lastRead, savedAt, reopened,
                   opsLeft, cacheRest>>

(* c.mu.RLock() of Get, GetAllFiles, Stats and Save. *)
RLock(g) ==
    /\ gor[g].stage = "lock"
    /\ gor[g].op \notin WriteOps
    /\ CanRLock(mu)
    /\ mu' = [mu EXCEPT !.readers = @ + 1]
    /\ gor' = [gor EXCEPT ![g].stage = "read",
                          ![g].at = IF gor[g].op \in {"HasChanged", "Save"}
                                    THEN Len(lockLog) ELSE 0]
    /\ UNCHANGED <<cEntries, cDirty, disk, cStart, lockLog, lastRead,
                   savedAt, reopened, opsLeft, cacheRest>>

(* The body of Get and its deferred RUnlock; Get returns, or HasChanged   *)
(* goes on with the entry it was given.                                    *)
GetEntry(g) ==
    LET me  == gor[g]
        got == [p \in {me.path} \cap DOMAIN cEntries |-> cEntries[p]]
    IN  /\ me.stage = "read"
        /\ me.op \in {"Get", "HasChanged"}
        /\ mu' = [mu EXCEPT !.readers = @ - 1]
        /\ IF me.op = "Get"
           THEN /\ lastRead' = [op |-> "Get", path |-> me.path, hash |-> "",
                                at |-> me.at,
                                value |-> Get(cEntries, me.path)]
                /\ gor' = [gor EXCEPT ![g] = IdleOp]
           ELSE /\ gor' = [gor EXCEPT ![g].stage = "compare", ![g].got = got]
                /\ UNCHANGED lastRead
        /\ UNCHANGED <<cEntries, cDirty, disk, cStart, lockLog, savedAt,
                       reopened, opsLeft, cacheRest>>

(* HasChanged compares the hash of the entry Get returned. *)
Compare(g) ==
    LET me == gor[g]
    IN  /\ me.stage = "compare"
        /\ lastRead' = [op |-> "HasChanged", path |-> me.path,
                        hash |-> me.hash, at |-> me.at,
                        value |-> HasChanged(me.got, me.path, me.hash)]
        /\ gor' = [gor EXCEPT ![g] = IdleOp]
        /\ UNCHANGED <<cEntries, cDirty, mu, disk, cStart, lockLog, savedAt,
                       reopened, opsLeft, cacheRest>>

(* One iteration of the range over c.entries in GetAllFiles and Stats. *)
RangeEntries(g, p) ==
    /\ gor[g].stage = "read"
    /\ gor[g].op \in RangeOps
    /\ p \in DOMAIN cEntries \ gor[g].visited
    /\ gor' = [gor EXCEPT ![g].visited = @ \cup {p},
                          ![g].total = @ + Len(cEntries[p].ChunkIDs)]
    /\ UNCHANGED <<cEntries, cDirty, mu, disk, cStart, lockLog, lastRead,
                   savedAt, reopened, opsLeft, cacheRest>>

(* The range is over: GetAllFiles returns the paths it met, Stats the     *)
(* size of the map and the chunk ids it counted.                           *)
RangeDone(g) ==
    LET me == gor[g]
    IN  /\ me.stage = "read"
        /\ me.op \in RangeOps
        /\ DOMAIN cEntries \ me.visited = {}
        /\ mu' = [mu EXCEPT !.readers = @ - 1]
        /\ lastRead' =
             [op |-> me.op, path |-> "", hash |-> "", at |-> me.at,
              value |-> IF me.op = "GetAllFiles" THEN me.visited
                        ELSE [FileCount  |-> Cardinality(DOMAIN cEntries),
                              ChunkCount |-> me.total]]
        /\ gor' = [gor EXCEPT ![g] = IdleOp]
        /\ UNCHANGED <<cEntries, cDirty, disk, cStart, lockLog, savedAt,
                       reopened, opsLeft, cacheRest>>

(* The body of Save: ok is whether MkdirAll, WriteFile and Rename succeed. *)
Save(g, ok) ==
    LET me == gor[g]
    IN  /\ me.stage = "read"
        /\ me.op = "Save"
        /\ disk' = SaveFile(disk, ProjectID, cEntries, cDirty, ok)
        /\ savedAt' = IF ~cDirty \/ ok THEN me.at ELSE savedAt
        /\ mu' = [mu EXCEPT !.readers = @ - 1]
        /\ gor' = [gor EXCEPT ![g] = IdleOp]
        /\ UNCHANGED <<cEntries, cDirty, cStart, lockLog, lastRead, reopened,
                       opsLeft, cacheRest>>

(* A second NewCache for the same directory and project. *)
NewCache ==
    /\ opsLeft > 0
    /\ opsLeft' = opsLeft - 1
    /\ reopened' = [valid |-> TRUE, entries |-> load(disk),
                    live |-> cEntries,
                    afterSave |-> savedAt = Len(lockLog) /\ mu.writers = 0]
    /\ UNCHANGED <<cEntries, cDirty, mu, disk, cStart, gor, lockLog,
                   lastRead, savedAt, cacheRest>>

CacheNext ==
    \/ \E g \in Goroutines, c \in CacheCalls : Go(g, c)
    \/ \E g \in Goroutines : Lock(g)
    \/ \E g \in Goroutines : Write(g)
    \/ \E g \in Goroutines : RLock(g)
    \/ \E g \in Goroutines : GetEntry(g)
    \/ \E g \in Goroutines : Compare(g)
    \/ \E g \in Goroutines, p \in Paths : RangeEntries(g, p)
    \/ \E g \in Goroutines : RangeDone(g)
    \/ \E g \in Goroutines, ok \in BOOLEAN : Save(g, ok)
    \/ NewCache

CacheSpec == CacheInit /\ [][CacheNext]_vars

(***************************************************************************)
(* Chunkers (internal/chunker).  A text is written as the sequence of its  *)
(* lines, so that strings.Split(text, "\n") and strings.Join(lines, "\n")  *)
(* are the identity on it; the empty text is the one empty line.           *)
(***************************************************************************)

EstimateTokens(content) ==
    LET
        (* len(text) in bytes. *)
        RECURSIVE TextLen(_)
        TextLen(text) ==
            IF Len(text) = 0 THEN 0
            ELSE IF Len(text) = 1 THEN Len(text[1])
            ELSE Len(text[1]) + 1 + TextLen(Tail(text))
    IN
        TextLen(content) \div 4

(* a + "\n\n" + b *)
JoinBlank(a, b) == a \o <<"">> \o b

(* extractLines: the lines start..end, 1-indexed and inclusive. *)
extractLines(lines, start, end) ==
    LET s == IF start < 1 THEN 1 ELSE start
        e == IF end > Len(lines) THEN Len(lines) ELSE end
    IN  IF s > e THEN <<"">> ELSE SubSeq(lines, s, e)

(* FileMetadata.FilePath of the file given to each chunker. *)
FilePathOf(lang) ==
    CASE lang = "go"       -> "a.go"
      [] lang = "ts"       -> "a.ts"
      [] lang = "php"      -> "a.php"
      [] lang = "markdown" -> "a.md"
      [] lang = "text"     -> "a.txt"

(* The conversion of a symbol, a section or a fragment to a Chunk. *)
ChunkOf(sym, filePath) ==
    [ID          |-> GenerateChunkID(ProjectID, filePath, sym.name,
                                     HashContent(sym.content)),
     Content     |-> sym.content,
     Symbol      |-> sym.name,
     SymbolType  |-> sym.symbolType,
     StartLine   |-> sym.startLine,
     EndLine     |-> sym.endLine,
     TokenCount  |-> sym.tokens,
     ContentHash |-> HashContent(sym.content),
     FilePath    |-> filePath,
     ProjectID   |-> ProjectID]

(* chunkAsFile: the whole file as one chunk. *)
chunkAsFile(lines, symbol, symbolType, filePath) ==
    << ChunkOf([name |-> symbol, symbolType |-> symbolType, startLine |-> 1,
                endLine |-> Len(lines), content |-> lines,
                tokens |-> EstimateTokens(lines)], filePath) >>

(* Variant: the slice is left in the order it has. *)
SortBy_NoSort(s, field) == s

(* sort.Slice by an integer member; slices this short are sorted by       *)
(* insertion.                                                              *)
SortBy(s, field) ==
    LET
        (* Insertion sort by an integer member: elements with equal keys keep     *)
        (* their order.                                                            *)
        RECURSIVE insertionSort(_)
        insertionSort(slice) ==
            IF Len(slice) <= 1 THEN slice
            ELSE LET front == insertionSort(SubSeq(slice, 1, Len(slice) - 1))
                     m     == slice[Len(slice)]
                     k     == Cardinality({i \in 1..Len(front) :
                                              front[i][field] <= m[field]})
                 IN  SubSeq(front, 1, k) \o <<m>> \o SubSeq(front, k + 1, Len(front))
    IN
        insertionSort(s)

(***************************************************************************)
(* The regex chunkers (TypeScript/JavaScript and PHP).  The lines of the   *)
(* files of the model, and what the patterns and scanners find in them.    *)
(***************************************************************************)
TSLines ==
    {"function f() {", "const g = (x) => x;", "type T = string;", "}",
     "/** doc */", "", "  return 1;"}

PHPLines ==
    {"function f() {", "class C", "{", "}", "// note", "", "    return 1;"}

(* The anchor patterns matching at the start of a line: name and type. *)
Anchors(lang, line) ==
    CASE lang = "ts" /\ line = "function f() {" ->
            {[name |-> "f", symbolType |-> "function"]}
      [] lang = "ts" /\ line = "const g = (x) => x;" ->
            {[name |-> "g", symbolType |-> "arrow_function"]}
      [] lang = "ts" /\ line = "type T = string;" ->
            {[name |-> "T", symbolType |-> "type"]}
      [] lang = "php" /\ line = "function f() {" ->
            {[name |-> "f", symbolType |-> "function"]}
      [] lang = "php" /\ line = "class C" ->
            {[name |-> "C", symbolType |-> "class"]}
      [] OTHER -> {}

(* The order in which findAllSymbols applies the patterns. *)
PatternOrder(lang) ==
    IF lang = "ts"
    THEN <<"class", "interface", "enum", "type", "function",
           "arrow_function", "export_default">>
    ELSE <<"class", "interface", "trait", "enum", "function">>

(* The priority map of deduplicateMatches. *)
priority(lang) ==
    IF lang = "ts"
    THEN [class |-> 1, interface |-> 2, enum |-> 3, type |-> 4,
          function |-> 5, arrow_function |-> 6, export_default |-> 7]
    ELSE [class |-> 1, interface |-> 2, trait |-> 3, enum |-> 4,
          function |-> 5, method |-> 6, constructor |-> 7]

(* addMatches: the matches of one pattern, in the order of the text. *)
addMatches(lang, lines, symbolType) ==
    LET hit(i) == \E a \in Anchors(lang, lines[i]) :
                      a.symbolType = symbolType
        idx    == SelectSeq([i \in 1..Len(lines) |-> i], hit)
    IN  [k \in 1..Len(idx) |->
            [name       |-> (CHOOSE a \in Anchors(lang, lines[idx[k]]) :
                                a.symbolType = symbolType).name,
             symbolType |-> symbolType,
             lineNum    |-> idx[k]]]

RECURSIVE allMatches(_, _, _)
allMatches(lang, lines, n) ==
    IF n = 0 THEN <<>>
    ELSE allMatches(lang, lines, n - 1)
         \o addMatches(lang, lines, PatternOrder(lang)[n])

(* The byLine map of deduplicateMatches after the first n matches. *)
RECURSIVE byLine(_, _, _)
byLine(lang, matches, n) ==
    IF n = 0 THEN [k \in {} |-> <<>>]
    ELSE LET before == byLine(lang, matches, n - 1)
             m      == matches[n]
         IN  IF m.lineNum \in DOMAIN before
             THEN IF priority(lang)[m.symbolType]
                        < priority(lang)[before[m.lineNum].symbolType]
                  THEN [before EXCEPT ![m.lineNum] = m]
                  ELSE before
             ELSE [k \in DOMAIN before \cup {m.lineNum} |->
                      IF k = m.lineNum THEN m ELSE before[k]]

(* The orders in which a range over the byLine map may visit its keys. *)
IterationOrders(lang, lines) ==
    LET all == allMatches(lang, lines, Len(PatternOrder(lang)))
    IN  Perms(DOMAIN byLine(lang, all, Len(all)))

(* findAllSymbols *)
findAllSymbols(lang, lines, order) ==
    LET
        (* deduplicateMatches: one match per line, in the order of the range.      *)
        deduplicateMatches(matches) ==
            LET m == byLine(lang, matches, Len(matches))
            IN  [i \in 1..Len(order) |-> m[order[i]]]
    IN
        deduplicateMatches(allMatches(lang, lines, Len(PatternOrder(lang))))

findPrecedingComment(lang, lines, symbolLine) ==
    LET
        (* What the scanners see in a line, after strings.TrimSpace. *)
        IsDocEnd(line) == line \in {"/** doc */"}       \* ends with "*/"
        HasDocStart(line) == line \in {"/** doc */"}    \* contains "/**"
        IsLineComment(line) == line \in {"// note"}     \* starts with "//"
        (* Starts with "@" (TypeScript) or with "#[" (PHP): no such line here. *)
        IsDecorator(line) == line \in {}
        IsBlank(line) == line = ""
        (* findPrecedingComment, from line k upward. *)
        RECURSIVE PrecedingFrom(_, _)
        PrecedingFrom(k, startLine) ==
            IF k < 1 THEN startLine
            ELSE LET line      == lines[k]
                     docStarts == {j \in 1..k : HasDocStart(lines[j])}
                 IN  IF IsDocEnd(line) /\ docStarts # {}
                     THEN CHOOSE j \in docStarts : \A h \in docStarts : h <= j
                     ELSE IF IsLineComment(line) \/ IsDecorator(line)
                     THEN PrecedingFrom(k - 1, k)
                     ELSE IF IsBlank(line)
                     THEN PrecedingFrom(k - 1, startLine)
                     ELSE startLine
    IN
        PrecedingFrom(symbolLine - 1, symbolLine)

(* The end returned when no closing brace is found. *)
FallbackLimit(lang) == IF lang = "ts" THEN 50 ELSE 100

findBraceEnd(lang, lines, startLine) ==
    LET
        (* The braces of a line outside its string literals, in order. *)
        Braces(line) ==
            CASE line \in {"function f() {", "{"} -> <<"{">>
              [] line = "}"                        -> <<"}">>
              [] OTHER                             -> <<>>
        (* The brace scan of one line from its j-th brace on. *)
        RECURSIVE ScanLine(_, _, _, _)
        ScanLine(braces, j, depth, foundOpen) ==
            IF j > Len(braces)
            THEN [hit |-> FALSE, depth |-> depth, foundOpen |-> foundOpen]
            ELSE IF braces[j] = "{"
            THEN ScanLine(braces, j + 1, depth + 1, TRUE)
            ELSE IF foundOpen /\ depth - 1 = 0
            THEN [hit |-> TRUE, depth |-> 0, foundOpen |-> TRUE]
            ELSE ScanLine(braces, j + 1, depth - 1, foundOpen)
        (* The line of the closing brace, or 0. *)
        RECURSIVE BraceEndFrom(_, _, _)
        BraceEndFrom(i, depth, foundOpen) ==
            IF i > Len(lines) THEN 0
            ELSE LET r == ScanLine(Braces(lines[i]), 1, depth, foundOpen)
                 IN  IF r.hit THEN i
                     ELSE BraceEndFrom(i + 1, r.depth, r.foundOpen)
    IN
        LET e == BraceEndFrom(startLine, 0, FALSE)
        IN  IF e # 0 THEN e ELSE startLine + FallbackLimit(lang)

findTypeEnd(lines, startLine) ==
    LET
        (* The characters of a line that findTypeEnd reacts to, in order. *)
        TypeChars(line) ==
            CASE line = "function f() {"      -> <<"(", ")", "{">>
              [] line = "const g = (x) => x;" -> <<"(", ")", ">", ";">>
              [] line = "type T = string;"    -> <<";">>
              [] line = "}"                   -> <<"}">>
              [] line = "  return 1;"         -> <<";">>
              [] OTHER                        -> <<>>
        (* The line starts with export, type, interface, class, function, const   *)
        (* or let.                                                                 *)
        StartsDeclaration(line) ==
            line \in {"function f() {", "const g = (x) => x;", "type T = string;"}
        (* The scan of findTypeEnd over one line from its j-th character on. *)
        RECURSIVE TypeScanLine(_, _, _)
        TypeScanLine(chars, j, depth) ==
            IF j > Len(chars) THEN [hit |-> FALSE, depth |-> depth]
            ELSE IF chars[j] \in {"{", "<", "("}
            THEN TypeScanLine(chars, j + 1, depth + 1)
            ELSE IF chars[j] \in {"}", ">", ")"}
            THEN TypeScanLine(chars, j + 1, depth - 1)
            ELSE IF depth = 0 THEN [hit |-> TRUE, depth |-> depth]
            ELSE TypeScanLine(chars, j + 1, depth)
        RECURSIVE TypeEndFrom(_, _)
        TypeEndFrom(i, depth) ==
            IF i > Len(lines) THEN 0
            ELSE LET r == TypeScanLine(TypeChars(lines[i]), 1, depth)
                 IN  IF r.hit THEN i
                     ELSE IF /\ i + 1 <= Len(lines)
                             /\ r.depth = 0
                             /\ StartsDeclaration(lines[i + 1])
                     THEN i
                     ELSE TypeEndFrom(i + 1, r.depth)
    IN
        LET e == TypeEndFrom(startLine, 0)
        IN  IF e # 0 THEN e ELSE startLine

(* extractSymbolBoundaries *)
extractSymbolBoundaries(lang, lines, matches) ==
    [i \in 1..Len(matches) |->
        LET m         == matches[i]
            startLine == IF m.lineNum > 1
                         THEN findPrecedingComment(lang, lines, m.lineNum)
                         ELSE m.lineNum
            found     == IF lang = "ts" /\ m.symbolType = "type"
                         THEN findTypeEnd(lines, m.lineNum)
                         ELSE findBraceEnd(lang, lines, m.lineNum)
            clamped   == IF i < Len(matches) /\ found >= matches[i + 1].lineNum
                         THEN matches[i + 1].lineNum - 1
                         ELSE found
            inFile    == IF clamped > Len(lines) THEN Len(lines) ELSE clamped
            endLine   == IF inFile < startLine THEN startLine ELSE inFile
            content   == extractLines(lines, startLine, endLine)
        IN  [name       |-> m.name,
             symbolType |-> m.symbolType,
             startLine  |-> startLine,
             endLine    |-> endLine,
             content    |-> content,
             tokens     |-> EstimateTokens(content)]]

mergeSmallSymbols(cfg, symbols) ==
    LET
        (* mergeSmallSymbols of the regex chunkers from the i-th symbol on: done   *)
        (* is its result slice, pending is empty or holds the one pending symbol. *)
        RECURSIVE MergeFrom(_, _, _)
        MergeFrom(i, done, pending) ==
            IF i > Len(symbols) THEN done \o pending
            ELSE LET sym == symbols[i]
                 IN  IF sym.tokens < cfg.MinTokens
                     THEN IF pending = <<>>
                          THEN MergeFrom(i + 1, done, <<sym>>)
                          ELSE LET c == JoinBlank(pending[1].content, sym.content)
                               IN  MergeFrom(i + 1, done, << [pending[1] EXCEPT
                                            !.content = c,
                                            !.endLine = sym.endLine,
                                            !.tokens  = EstimateTokens(c),
                                            !.name    = @ \o "+" \o sym.name] >>)
                     ELSE IF pending = <<>>
                     THEN MergeFrom(i + 1, Append(done, sym), <<>>)
                     ELSE IF pending[1].tokens + sym.tokens <= cfg.MaxTokens
                     THEN LET c == JoinBlank(pending[1].content, sym.content)
                          IN  MergeFrom(i + 1, Append(done,
                                        [sym EXCEPT
                                           !.content   = c,
                                           !.startLine = pending[1].startLine,
                                           !.tokens    = EstimateTokens(c)]), <<>>)
                     ELSE MergeFrom(i + 1, done \o pending \o <<sym>>, <<>>)
    IN
        IF Len(symbols) <= 1 THEN symbols
        ELSE MergeFrom(1, <<>>, <<>>)

(* The symbols of a TypeScript or PHP file before merging. *)
RegexSymbols(lang, lines, order) ==
    extractSymbolBoundaries(lang, lines,
        SortBy(findAllSymbols(lang, lines, order), "lineNum"))

(* TypeScriptChunker.Chunk and PHPChunker.Chunk *)
RegexChunk(lang, lines, cfg, order) ==
    IF Len(findAllSymbols(lang, lines, order)) = 0
    THEN chunkAsFile(lines, FilePathOf(lang), "file", FilePathOf(lang))
    ELSE LET symbols == RegexSymbols(lang, lines, order)
             merged  == IF cfg.MergeSmallChunks
                        THEN mergeSmallSymbols(cfg, symbols)
                        ELSE symbols
         IN  [i \in 1..Len(merged) |-> ChunkOf(merged[i], FilePathOf(lang))]

(***************************************************************************)
(* The Go chunker.  A Go file is given as parser.ParseFile returns it: the *)
(* top-level declarations in source order, each with its doc comment and   *)
(* its text; a file with a declaration that does not parse has no AST.     *)
(***************************************************************************)
GoDecls ==
    {[kind |-> "func", names |-> <<"F">>, recv |-> "", specType |-> "",
      doc |-> <<>>, text |-> <<"func F() {", "}">>],
     [kind |-> "func", names |-> <<"G">>, recv |-> "", specType |-> "",
      doc |-> <<"// G does.">>,
      text |-> <<"func G() int {", "  return 1", "}">>],
     [kind |-> "func", names |-> <<"M">>, recv |-> "T", specType |-> "",
      doc |-> <<>>, text |-> <<"func (t *T) M() {", "}">>],
     [kind |-> "type", names |-> <<"A", "B">>, recv |-> "",
      specType |-> "type",
      doc |-> <<>>, text |-> <<"type (", "  A int", "  B int", ")">>],
     [kind |-> "type", names |-> <<"S">>, recv |-> "", specType |-> "struct",
      doc |-> <<"// S is.">>, text |-> <<"type S struct{}">>],
     [kind |-> "var", names |-> <<>>, recv |-> "", specType |-> "",
      doc |-> <<>>, text |-> <<"var x = 1">>],
     [kind |-> "broken", names |-> <<>>, recv |-> "", specType |-> "",
      doc |-> <<>>, text |-> <<"func {">>]}

(* The source of a Go file: the package clause, then the declarations. *)
RECURSIVE GoSource(_)
GoSource(decls) ==
    IF Len(decls) = 0 THEN <<"package p">>
    ELSE GoSource(SubSeq(decls, 1, Len(decls) - 1))
         \o decls[Len(decls)].doc \o decls[Len(decls)].text

(* parser.ParseFile returns no error. *)
GoParses(decls) == \A k \in 1..Len(decls) : decls[k].kind # "broken"

GoMergeSmallSymbols(cfg, symbols) ==
    LET
        (* strings.Join of the contents with "\n\n". *)
        RECURSIVE JoinAllBlank(_)
        JoinAllBlank(list) ==
            IF Len(list) = 1 THEN list[1].content
            ELSE JoinBlank(JoinAllBlank(SubSeq(list, 1, Len(list) - 1)),
                           list[Len(list)].content)
        RECURSIVE JoinNames(_)
        JoinNames(list) ==
            IF Len(list) = 1 THEN list[1].name
            ELSE JoinNames(SubSeq(list, 1, Len(list) - 1))
                 \o "+" \o list[Len(list)].name
        MinStart(list) ==
            CHOOSE l \in {list[i].startLine : i \in 1..Len(list)} :
                \A i \in 1..Len(list) : l <= list[i].startLine
        MaxEnd(list) ==
            CHOOSE l \in {list[i].endLine : i \in 1..Len(list)} :
                \A i \in 1..Len(list) : l >= list[i].endLine
        (* GoChunker.mergeInto *)
        mergeInto(target, small) ==
            LET all == <<target>> \o small
                c   == JoinAllBlank(all)
            IN  [target EXCEPT !.content   = c,
                               !.tokens    = EstimateTokens(c),
                               !.startLine = MinStart(all),
                               !.endLine   = MaxEnd(all),
                               !.name      = @ \o "+" \o ToString(Len(small))]
        (* GoChunker.combineSymbols *)
        combineSymbols(list) ==
            LET c == JoinAllBlank(list)
            IN  [name       |-> JoinNames(list),
                 symbolType |-> "combined",
                 startLine  |-> MinStart(list),
                 endLine    |-> MaxEnd(list),
                 content    |-> c,
                 tokens     |-> EstimateTokens(c)]
    IN
        LET
            (* GoChunker.mergeSmallSymbols from the i-th symbol on. *)
            RECURSIVE GoMergeFrom(_, _, _)
            GoMergeFrom(i, done, pendingSmall) ==
                IF i > Len(symbols)
                THEN IF Len(pendingSmall) = 0 THEN done
                     ELSE IF Len(done) > 0
                     THEN [done EXCEPT ![Len(done)] = mergeInto(@, pendingSmall)]
                     ELSE <<combineSymbols(pendingSmall)>>
                ELSE LET sym == symbols[i]
                     IN  IF sym.tokens < cfg.MinTokens
                         THEN GoMergeFrom(i + 1, done, Append(pendingSmall, sym))
                         ELSE GoMergeFrom(i + 1, Append(done, IF Len(pendingSmall) > 0
                                              THEN mergeInto(sym, pendingSmall)
                                              ELSE sym), <<>>)
        IN
            IF Len(symbols) <= 1 THEN symbols
            ELSE GoMergeFrom(1, <<>>, <<>>)

(* The symbols of a Go file before merging. *)
GoSymbols(decls) ==
    LET
        (* extractFunction and extractType: the symbol of one name of the k-th    *)
        (* declaration.  Every TypeSpec of a declaration gets the lines of the    *)
        (* whole declaration.                                                      *)
        GoSymbol(k, n) ==
            LET
                (* fset.Position(...).Line of the doc comment, the start and the end of   *)
                (* the j-th declaration.                                                   *)
                DocLine(j) == Len(GoSource(SubSeq(decls, 1, j - 1))) + 1
                PosLine(j) == DocLine(j) + Len(decls[j].doc)
                EndLine(j) == PosLine(j) + Len(decls[j].text) - 1
            IN
                LET d         == decls[k]
                    lines     == GoSource(decls)
                    startLine == IF d.doc # <<>> /\ DocLine(k) < PosLine(k)
                                 THEN DocLine(k)
                                 ELSE PosLine(k)
                    content   == extractLines(lines, startLine, EndLine(k))
                IN  [name       |-> IF d.kind = "func" /\ d.recv # ""
                                    THEN d.recv \o "." \o d.names[n]
                                    ELSE d.names[n],
                     symbolType |-> IF d.kind = "type" THEN d.specType
                                    ELSE IF d.recv # "" THEN "method" ELSE "function",
                     startLine  |-> startLine,
                     endLine    |-> EndLine(k),
                     content    |-> content,
                     tokens     |-> EstimateTokens(content)]
        (* extractSymbols: the functions and the type specs, in source order. *)
        RECURSIVE extractSymbols(_)
        extractSymbols(k) ==
            IF k = 0 THEN <<>>
            ELSE extractSymbols(k - 1)
                 \o (IF decls[k].kind \in {"func", "type"}
                     THEN [n \in 1..Len(decls[k].names) |-> GoSymbol(k, n)]
                     ELSE <<>>)
    IN
        SortBy(extractSymbols(Len(decls)), "startLine")

(* GoChunker.Chunk *)
GoChunk(decls, cfg) ==
    IF ~GoParses(decls) \/ Len(GoSymbols(decls)) = 0
    THEN chunkAsFile(GoSource(decls), FilePathOf("go"), "file",
                     FilePathOf("go"))
    ELSE LET merged == IF cfg.MergeSmallChunks
                       THEN GoMergeSmallSymbols(cfg, GoSymbols(decls))
                       ELSE GoSymbols(decls)
         IN  [i \in 1..Len(merged) |-> ChunkOf(merged[i], FilePathOf("go"))]

(***************************************************************************)
(* The Markdown chunker.                                                   *)
(***************************************************************************)
MdLines == {"# A", "## B", "some text here", ""}

extractSections(lines) ==
    LET
        (* headingPattern ^(#{1,6})\s+(.+)$ on the lines of MdLines *)
        IsHeading(line) == line \in {"# A", "## B"}
        HeadingOf(line) == IF line = "# A" THEN "A" ELSE "B"
        (* MarkdownChunker.extractSections from the i-th line on; cur is the      *)
        (* section being read, <<>> when there is none.                            *)
        RECURSIVE SectionsFrom(_, _, _)
        SectionsFrom(i, sections, cur) ==
            LET close(endLine) ==
                    IF cur = <<>> THEN sections
                    ELSE Append(sections,
                                [cur[1] EXCEPT !.endLine = endLine,
                                               !.tokens  = EstimateTokens(cur[1].content)])
                open(heading) ==
                    << [name |-> heading, symbolType |-> "heading", startLine |-> i,
                        endLine |-> 0, content |-> <<lines[i]>>, tokens |-> 0] >>
            IN  IF i > Len(lines) THEN close(Len(lines))
                ELSE IF IsHeading(lines[i])
                THEN SectionsFrom(i + 1, close(i - 1), open(HeadingOf(lines[i])))
                ELSE IF cur # <<>>
                THEN SectionsFrom(i + 1, sections, << [cur[1] EXCEPT !.content = Append(@, lines[i])] >>)
                ELSE SectionsFrom(i + 1, sections, open("(intro)"))
    IN
        SectionsFrom(1, <<>>, <<>>)

mergeSmallSections(cfg, sections) ==
    LET
        (* MarkdownChunker.mergeSmallSections from the i-th section on. *)
        RECURSIVE MdMergeFrom(_, _, _)
        MdMergeFrom(secs, i, done) ==
            IF i > Len(secs) THEN done
            ELSE LET sec == secs[i]
                 IN  IF sec.tokens < cfg.MinTokens /\ i > 1 /\ Len(done) > 0
                     THEN LET prevSec == done[Len(done)]
                              c    == JoinBlank(prevSec.content, sec.content)
                          IN  MdMergeFrom(secs, i + 1, [done EXCEPT ![Len(done)] =
                                      [prevSec EXCEPT !.content = c,
                                                   !.endLine = sec.endLine,
                                                   !.tokens  = EstimateTokens(c)]])
                     ELSE IF sec.tokens < cfg.MinTokens /\ i < Len(secs)
                     THEN LET nextSec == secs[i + 1]
                              c       == JoinBlank(sec.content, nextSec.content)
                          IN  MdMergeFrom([secs EXCEPT ![i + 1] =
                                      [nextSec EXCEPT !.content   = c,
                                                      !.startLine = sec.startLine,
                                                      !.tokens    = EstimateTokens(c)]], i + 1, done)
                     ELSE MdMergeFrom(secs, i + 1, Append(done, sec))
    IN
        IF Len(sections) <= 1 THEN sections
        ELSE MdMergeFrom(sections, 1, <<>>)

(* MarkdownChunker.Chunk *)
MarkdownChunk(lines, cfg) ==
    IF Len(extractSections(lines)) = 0
    THEN chunkAsFile(lines, FilePathOf("markdown"), "document",
                     FilePathOf("markdown"))
    ELSE LET merged == IF cfg.MergeSmallChunks
                       THEN mergeSmallSections(cfg, extractSections(lines))
                       ELSE extractSections(lines)
         IN  [i \in 1..Len(merged) |->
                 ChunkOf(merged[i], FilePathOf("markdown"))]

(***************************************************************************)
(* The generic chunker: fragments of at most MaxTokens tokens.             *)
(***************************************************************************)
TextLines == {"aaaaaaaaaaaaaaaaaaaaaaaa", "bbbbbbbbbbbbbbbbbbbbbbbb"}

(* GenericChunker.Chunk *)
GenericChunk(lines, cfg) ==
    LET
        (* GenericChunker.createChunk *)
        createChunk(currentLines, startLine, endLine, filePath) ==
            LET
                (* filepath.Base(path) without its extension, dots replaced *)
                BaseNoExt(path) == IF path = "a.txt" THEN "a" ELSE path
            IN
                ChunkOf([name       |-> IF startLine > 1 \/ endLine < Len(currentLines)
                                        THEN BaseNoExt(filePath) ELSE filePath,
                         symbolType |-> "fragment",
                         startLine  |-> startLine,
                         endLine    |-> endLine,
                         content    |-> currentLines,
                         tokens     |-> EstimateTokens(currentLines)], filePath)
    IN
        LET
            (* The loop of GenericChunker.Chunk from the i-th line on. *)
            RECURSIVE FragmentsFrom(_, _, _, _, _)
            FragmentsFrom(i, chunks, currentLines, currentTokens, startLine) ==
                IF i > Len(lines)
                THEN IF Len(currentLines) > 0
                     THEN Append(chunks, createChunk(currentLines, startLine, Len(lines),
                                                     FilePathOf("text")))
                     ELSE chunks
                ELSE LET lineTokens == EstimateTokens(<<lines[i]>>)
                     IN  IF /\ currentTokens + lineTokens > cfg.MaxTokens
                            /\ Len(currentLines) > 0
                         THEN FragmentsFrom(i + 1, Append(chunks, createChunk(currentLines, startLine,
                                                             i - 1, FilePathOf("text"))), <<lines[i]>>, lineTokens, i)
                         ELSE FragmentsFrom(i + 1, chunks, Append(currentLines, lines[i]), currentTokens + lineTokens, startLine)
        IN
            IF EstimateTokens(lines) <= cfg.MaxTokens
            THEN chunkAsFile(lines, FilePathOf("text"), "file", FilePathOf("text"))
            ELSE FragmentsFrom(1, <<>>, <<>>, 0, 1)

(***************************************************************************)
(* The chunkers at work: a file of one language is handed to its chunker,  *)
(* which is run on it twice; syms holds the symbols (or the sections)      *)
(* found before merging, out and out2 the chunks of the two runs.  The two *)
(* runs of a regex chunker range over the by-line map in orders of their   *)
(* own.                                                                    *)
(***************************************************************************)

ChunkInputs ==
    LET
        SeqsUpTo(S, n) == UNION {[1..k -> S] : k \in 1..n}
        SourceOf(lang, lines, decls, cfg) ==
            [lang |-> lang, lines |-> lines, decls |-> decls, cfg |-> cfg]
    IN
        UNION {
            {SourceOf("ts", l, <<>>, cfg) : l \in SeqsUpTo(TSLines, MaxLines)}
            \cup {SourceOf("php", l, <<>>, cfg) : l \in SeqsUpTo(PHPLines, MaxLines)}
            \cup {SourceOf("go", GoSource(d), d, cfg) : d \in SeqsUpTo(GoDecls, MaxDecls)}
            \cup {SourceOf("markdown", l, <<>>, cfg) : l \in SeqsUpTo(MdLines, MaxLines)}
            \cup {SourceOf("text", l, <<>>, cfg) : l \in SeqsUpTo(TextLines, MaxFragLines)}
            : cfg \in Configs}

ChunkInit ==
    /\ IndexerInit(0)
    /\ ServiceOff
    /\ CliOff
    /\ CacheOff
    /\ src \in ChunkInputs
    /\ cpc = "input"
    /\ syms = <<>>
    /\ out = <<>>
    /\ out2 = <<>>

chunkRest == <<indexerVars, serviceVars, cliVars, cacheVars>>

Chunked(symbols, first, second) ==
    /\ syms' = symbols
    /\ out' = first
    /\ out2' = second
    /\ cpc' = "chunked"
    /\ UNCHANGED <<src, chunkRest>>

ChunkTypeScript(o1, o2) ==
    /\ cpc = "input"
    /\ src.lang = "ts"
    /\ Chunked(IF Len(findAllSymbols("ts", src.lines, o1)) = 0 THEN <<>>
               ELSE RegexSymbols("ts", src.lines, o1),
               RegexChunk("ts", src.lines, src.cfg, o1),
               RegexChunk("ts", src.lines, src.cfg, o2))

ChunkPHP(o1, o2) ==
    /\ cpc = "input"
    /\ src.lang = "php"
    /\ Chunked(IF Len(findAllSymbols("php", src.lines, o1)) = 0 THEN <<>>
               ELSE RegexSymbols("php", src.lines, o1),
               RegexChunk("php", src.lines, src.cfg, o1),
               RegexChunk("php", src.lines, src.cfg, o2))

ChunkGo ==
    /\ cpc = "input"
    /\ src.lang = "go"
    /\ Chunked(IF GoParses(src.decls) THEN GoSymbols(src.decls) ELSE <<>>,
               GoChunk(src.decls, src.cfg),
               GoChunk(src.decls, src.cfg))

ChunkMarkdown ==
    /\ cpc = "input"
    /\ src.lang = "markdown"
    /\ Chunked(extractSections(src.lines),
               MarkdownChunk(src.lines, src.cfg),
               MarkdownChunk(src.lines, src.cfg))

ChunkGeneric ==
    /\ cpc = "input"
    /\ src.lang = "text"
    /\ Chunked(<<>>,
               GenericChunk(src.lines, src.cfg),
               GenericChunk(src.lines, src.cfg))

ChunkNext ==
    \/ \E o1, o2 \in IterationOrders("ts", src.lines) : ChunkTypeScript(o1, o2)
    \/ \E o1, o2 \in IterationOrders("php", src.lines) : ChunkPHP(o1, o2)
    \/ ChunkGo
    \/ ChunkMarkdown
    \/ ChunkGeneric

ChunkSpec == ChunkInit /\ [][ChunkNext]_vars

(***************************************************************************)
(* Vocabulary of the properties.                                           *)
(***************************************************************************)
(* IndexProject has returned an IndexResult. *)
RunDone == pc = "idle" /\ returned = "result"

(* The run was not cancelled and its result lists no error. *)
CleanRun == RunDone /\ ~cancelled /\ result.Errors = <<>>

(* The run before the current one returned a result without any error. *)
PrevClean ==
    prev.valid /\ prev.returned = "result" /\ ~prev.cancelled
    /\ prev.errors = <<>>

CallsOf(ops) == {i \in 1..Len(calls) : calls[i].op \in ops}

StoreWriteOps == {"Upsert", "Delete", "DeleteByFilter"}

(* The chunks whose text was passed to EmbedBatch in the current run. *)
EmbeddedChunks == UNION {Range(calls[i].arg) : i \in CallsOf({"EmbedBatch"})}

(* The points passed to Upsert in the current run. *)
UpsertedPoints == UNION {Range(calls[i].arg) : i \in CallsOf({"Upsert"})}

IDsOf(chunks) == {c.ID : c \in Range(chunks)}

CachedIDs(entries, filePath) == Range(GetChunkIDs(entries, filePath))

HashErrorPaths == {p \in Paths : <<"hash", p>> \in Range(result.Errors)}

FileErrorPaths == {p \in Paths : <<"file", p>> \in Range(result.Errors)}

(***************************************************************************)
(* C1: an incremental run that follows a run which returned without error  *)
(* over the same tree calls neither EmbedBatch nor Upsert, Delete or       *)
(* DeleteByFilter, reports files_indexed = 0 and chunks_created = 0,       *)
(* counts every discovered file it could hash as skipped, and leaves the   *)
(* cache entries as they were.                                             *)
(***************************************************************************)
C1_SecondRunCase ==
    RunDone /\ ~fullIndex /\ PrevClean /\ prev.tree = tree

C1_IncrementalIdempotence ==
    C1_SecondRunCase =>
        /\ CallsOf({"EmbedBatch"} \cup StoreWriteOps) = {}
        /\ result.FilesIndexed = 0
        /\ result.ChunksCreated = 0
        /\ result.FilesSkipped = Len(discovered) - Cardinality(HashErrorPaths)
        /\ cache = cacheAtStart
        /\ cacheFile = cacheAtStart
        /\ store = storeAtStart

C1_Witness ==
    /\ C1_SecondRunCase
    /\ ~prev.full
    /\ result.Errors = <<>>
    /\ Len(discovered) = 2
    /\ result.FilesSkipped = 2
    /\ DOMAIN cacheFile = Paths

(***************************************************************************)
(* C2: after an incremental run without error, the live points of every    *)
(* file the run re-chunked are exactly the ids the run emitted for it: no  *)
(* id of an earlier chunking pass stays live.                              *)
(***************************************************************************)
C2_StaleChunksAreDeleted ==
    (CleanRun /\ ~fullIndex) =>
        \A p \in indexed :
            LiveIDsOfFile(store, ProjectID, p) = CachedIDs(cache, p)

(***************************************************************************)
(* C3: when the Upsert of a run failed, the next incremental run over the  *)
(* unchanged tree queues every file the failed run had indexed.            *)
(***************************************************************************)
C3_RetryAfterUpsertFailure ==
    (/\ pc \in {"process", "finish"} \/ RunDone
     /\ ~fullIndex
     /\ prev.valid /\ prev.upsertFailed
     /\ prev.tree = tree
     /\ HashErrorPaths = {})
        => prev.indexed \subseteq {f.relPath : f \in Range(queued)}

(***************************************************************************)
(* C4: an incremental run in which no call fails removes from the store    *)
(* exactly the cached chunk ids of the files that left the tree, removes   *)
(* exactly their cache entries, and counts each such file once in          *)
(* files_deleted.                                                          *)
(***************************************************************************)
C4_Deleted == DOMAIN cacheAtStart \ Range(discovered)

C4_TombstoneCase == CleanRun /\ ~fullIndex

C4_TombstoneCorrectness ==
    C4_TombstoneCase =>
        /\ result.FilesDeleted = Cardinality(C4_Deleted)
        /\ DOMAIN cacheAtStart \ DOMAIN cache = C4_Deleted
        /\ DOMAIN cacheAtStart \ DOMAIN cacheFile = C4_Deleted
        /\ \A p \in C4_Deleted :
              CachedIDs(cacheAtStart, p) \cap LiveIDs(store, ProjectID) = {}
        /\ {q.uuid : q \in storeAtStart} \ {q.uuid : q \in store}
              = {stringToUUID(id) :
                   id \in UNION {CachedIDs(cacheAtStart, p) : p \in C4_Deleted}}
                \cap {q.uuid : q \in storeAtStart}

C4_Witness ==
    /\ C4_TombstoneCase
    /\ result.FilesDeleted = 1
    /\ result.ChunksDeleted = 2
    /\ DOMAIN cache # {}
    /\ LiveIDs(store, ProjectID) # {}
    /\ LiveIDs(storeAtStart, ProjectID) \ LiveIDs(store, ProjectID) # {}

(***************************************************************************)
(* C5: in an incremental run, no chunk whose id is recorded in the cache   *)
(* for its file at the start of the run is passed to EmbedBatch.           *)
(***************************************************************************)
C5_UnchangedChunksNotEmbedded ==
    (RunDone /\ ~fullIndex) =>
        \A c \in EmbeddedChunks : c.ID \notin CachedIDs(cacheAtStart, c.FilePath)

(***************************************************************************)
(* C6: a run in which an EmbedBatch call fails makes no Upsert call,       *)
(* lists the error in its result and writes the cache file (unless the     *)
(* write itself fails).                                                    *)
(***************************************************************************)
C6_EmbedFailed ==
    RunDone /\ \E i \in CallsOf({"EmbedBatch"}) : ~calls[i].ok

C7_FullReindexEquivalence ==
    (CleanRun /\ fullIndex /\ PrevClean /\ ~prev.full /\ prev.tree = tree)
        => LiveIDs(store, ProjectID) = prev.live

(***************************************************************************)
(* C8: after a full run whose result lists no error, the live points of    *)
(* the project are exactly the points of the chunks the run emitted, the   *)
(* cache holds exactly the files the run indexed, and DeleteByFilter for   *)
(* the project was the first store call of the run.                        *)
(***************************************************************************)
C8_FullCase == RunDone /\ fullIndex /\ result.Errors = <<>>

C8_FullIndexLeavesNoStalePoint ==
    C8_FullCase =>
        /\ {q \in store : q.project_id = ProjectID}
              = {PointOf(c) : c \in Range(allChunks)}
        /\ DOMAIN cache = indexed
        /\ calls # <<>>
        /\ calls[1] = Call("DeleteByFilter", ProjectID, TRUE)
        /\ \A i \in CallsOf({"Upsert"}) : i > 1

C8_Witness ==
    /\ C8_FullCase
    /\ allChunks # <<>>
    /\ LiveIDs(storeAtStart, ProjectID) \ IDsOf(allChunks) # {}
    /\ cacheAtStart # EmptyCache

(***************************************************************************)
(* C9: in a run that is not cancelled, a file that cannot be hashed, read  *)
(* or chunked is listed in the errors, is not counted as indexed and gets  *)
(* no cache entry from the run; every other file that is due is indexed    *)
(* and, as long as no provider call fails, its chunks are passed to        *)
(* EmbedBatch and upserted.                                                *)
(***************************************************************************)
C9_Due ==
    {p \in Range(discovered) :
        fullIndex \/ HasChanged(cacheAtStart, p, hashFile(tree[p]))}

C9_ErrorPaths == HashErrorPaths \cup FileErrorPaths

C9_PerFileCase == RunDone /\ ~cancelled

C9_PerFileErrorsDoNotAbort ==
    C9_PerFileCase =>
        /\ result.FilesIndexed = Cardinality(indexed)
        /\ indexed = C9_Due \ C9_ErrorPaths
        /\ \A p \in C9_ErrorPaths :
              IF ~fullIndex /\ p \in DOMAIN cacheAtStart
              THEN p \in DOMAIN cache /\ cache[p] = cacheAtStart[p]
              ELSE p \notin DOMAIN cache
        /\ \A p \in indexed :
              /\ p \in DOMAIN cache
              /\ cache[p].ContentHash = hashFile(tree[p])
              /\ CachedIDs(cache, p) \subseteq IDsOf(allChunks)
              /\ (\A i \in CallsOf({"EmbedBatch"}) : calls[i].ok) =>
                    CachedIDs(cache, p) \subseteq
                        {c.ID : c \in EmbeddedChunks}
              /\ <<"upsert chunks">> \notin Range(result.Errors) =>
                    CachedIDs(cache, p) \subseteq LiveIDs(store, ProjectID)

C9_Witness ==
    /\ C9_PerFileCase
    /\ FileErrorPaths # {}
    /\ indexed # {}
    /\ <<"upsert chunks">> \notin Range(result.Errors)
    /\ \A p \in indexed : CachedIDs(cache, p) \subseteq LiveIDs(store, ProjectID)

(***************************************************************************)
(* C10: once the context is cancelled while files are processed, no        *)
(* further file is processed, the run returns an IndexResult whose counts  *)
(* are those of the files collected so far, and the cache is written.      *)
(***************************************************************************)
(* The results the workers have produced in the current run. *)
C10_Produced ==
    procResult.filesIndexed + Len(procResult.errors) + Len(resultCh)

C10_PartialResult ==
    (RunDone /\ cancelled) =>
        /\ result.FilesIndexed = Cardinality(indexed)
        /\ result.FilesIndexed <= Len(queued)
        /\ result.ChunksCreated = Len(allChunks)
        /\ <<"save cache">> \notin Range(result.Errors) => cacheFile = cache

C10_NoFileAfterCancel ==
    (cancelled /\ pc = "process" /\ pc' = "process")
        => C10_Produced' = C10_Produced

C11_DeleteOps == {"Delete", "DeleteByFilter"}

C11_DeletesBeforeUpserts ==
    \A i \in CallsOf(C11_DeleteOps), j \in CallsOf({"Upsert"}) : i < j

C11_Witness ==
    /\ RunDone
    /\ CallsOf({"Delete"}) # {}
    /\ CallsOf({"Upsert"}) # {}
    /\ C11_DeletesBeforeUpserts

(***************************************************************************)
(* C12: no step of an IndexProject run for the project, incremental or     *)
(* full, changes the set of points tagged with another project or the      *)
(* cache file of the other project.                                        *)
(***************************************************************************)
C12_ForeignPoints(st) == {q \in st : q.project_id # ProjectID}

C12_ForeignUntouched ==
    /\ C12_ForeignPoints(store') = C12_ForeignPoints(store)
    /\ otherCacheFile' = otherCacheFile

C12_ProjectIsolation == [][C12_ForeignUntouched]_vars

C12_Witness ==
    /\ RunDone
    /\ fullIndex
    /\ prev.valid /\ ~prev.full
    /\ CallsOf({"DeleteByFilter"}) # {}
    /\ CallsOf({"Upsert"}) # {}
    /\ LiveIDs(storeAtStart, ProjectID) # {}
    /\ cacheFile # cacheAtStart
    /\ C12_ForeignPoints(store) = {ForeignPoint}
    /\ otherCacheFile = OtherCache

(***************************************************************************)
(* Vocabulary of the properties of the retrieval service.                  *)
(***************************************************************************)
(* A POST /retrieve request has been received and is handled or answered. *)
RetrieveSeen == inflight.route = "retrieve" /\ inflight.stage # "none"

RetrieveAnswered == inflight.route = "retrieve" /\ inflight.stage = "done"

(* The Search calls made for the request. *)
SearchCalls == {i \in 1..Len(rcalls) : rcalls[i].op = "Search"}

(***************************************************************************)
(* C13: a POST /retrieve whose body does not parse, or gives no project_id *)
(* or no query (or an empty one), is answered with 400 and makes no call   *)
(* to the embedder or to the vector store.                                 *)
(***************************************************************************)
C13_Rejectable(body) ==
    \/ ~body.valid
    \/ body.project_id \in {<<>>, <<"">>}
    \/ body.query \in {<<>>, <<"">>}

C14_Expected(body) ==
    IF body.top_k = <<>> THEN 5
    ELSE IF body.top_k[1] <= 0 THEN 5
    ELSE IF body.top_k[1] > 20 THEN 20
    ELSE body.top_k[1]

C14_TopKClamped ==
    \A i \in SearchCalls :
        /\ rcalls[i].arg.query.TopK = C14_Expected(inflight.body)
        /\ rcalls[i].arg.request.Limit = C14_Expected(inflight.body)
        /\ rcalls[i].arg.query.TopK \in 1..20

C14_Witness ==
    /\ RetrieveAnswered
    /\ inflight.body.top_k = <<21>>
    /\ SearchCalls # {}
    /\ \A i \in SearchCalls : rcalls[i].arg.query.TopK = 20
    /\ response.status = 200

(***************************************************************************)
(* C15: every Search made for a request is sent with a project_id          *)
(* condition whose value is the project_id of the request, and with a      *)
(* module, language or symbol_type condition exactly when the request      *)
(* gives that filter a non-empty value, which is then the condition's.     *)
(***************************************************************************)
C15_Given(body, name) ==
    IF body.filters = <<>> THEN ""
    ELSE IF name = "module" THEN body.filters[1].module
    ELSE IF name = "language" THEN body.filters[1].language
    ELSE body.filters[1].symbol_type

C15_Conditions(call) == Range(call.arg.request.Must)

C16_Codes ==
    {"INVALID_REQUEST", "MISSING_REQUIRED_FIELD", "EMBEDDING_FAILED",
     "SEARCH_FAILED", "SERVICE_DEGRADED"}

C16_ExpectedCode ==
    IF ~inflight.body.valid THEN "INVALID_REQUEST"
    ELSE IF response.status = 400 THEN "MISSING_REQUIRED_FIELD"
    ELSE IF SearchCalls = {} THEN "EMBEDDING_FAILED"
    ELSE "SEARCH_FAILED"

C16_ErrorBodiesCarryCode ==
    response.status >= 400 =>
        /\ "error" \in DOMAIN response.body
        /\ "code" \in DOMAIN response.body
        /\ response.body.code \in C16_Codes
        /\ inflight.route = "retrieve" => response.body.code = C16_ExpectedCode

(***************************************************************************)
(* C17: GET /health reports healthy exactly when the Health call of the    *)
(* embedder and that of the vector store both succeed, degraded otherwise, *)
(* and answers 200 exactly when it reports healthy, 503 otherwise.         *)
(***************************************************************************)
C17_HealthAnswered == inflight.route = "health" /\ inflight.stage = "done"

C17_BothOk == \A i \in 1..Len(rcalls) : rcalls[i].ok

C17_HealthStatus ==
    C17_HealthAnswered =>
        /\ {rcalls[i].arg.kind : i \in 1..Len(rcalls)} = {"embedder", "vectordb"}
        /\ response.body.status = (IF C17_BothOk THEN "healthy" ELSE "degraded")
        /\ response.status = (IF response.body.status = "healthy" THEN 200
                              ELSE 503)

C17_Witness ==
    /\ C17_HealthAnswered
    /\ rcalls[1].ok
    /\ ~rcalls[2].ok
    /\ response.status = 503
    /\ response.body.status = "degraded"

(***************************************************************************)
(* C18: once a SIGHUP has reloaded the configuration file, the server      *)
(* holds provider instances built from the reloaded configuration, the     *)
(* instances it held before are closed, and every /retrieve request        *)
(* started afterwards uses the new instances.                              *)
(***************************************************************************)
C18_ProvidersFollowReload ==
    /\ svcPc = "serving" =>
          /\ sEmbedder = Provider("embedder", mconfig)
          /\ sVectorDB = Provider("vectordb", mconfig)
          /\ \A cfg \in 1..(mconfig - 1) :
                {Provider("embedder", cfg), Provider("vectordb", cfg)}
                    \subseteq closedInst
    /\ Handling =>
          /\ inflight.emb = Provider("embedder", inflight.cfgAtStart)
          /\ inflight.vdb = Provider("vectordb", inflight.cfgAtStart)

(***************************************************************************)
(* C19: at startup each provider's Health is called at most 30 times; as   *)
(* long as no shutdown signal has arrived, one second has been waited per  *)
(* failed probe of the running loop; a loop ends at its first successful   *)
(* probe; the process exits with 1 exactly after 30 consecutive failed     *)
(* probes of one provider; the server runs only after a probe of the       *)
(* embedder and a probe of the vector store have succeeded.                *)
(***************************************************************************)
(* The process is in, or has exited from, the startup of main. *)
C19_StartingUp == svcPc \in {"embProbe", "vdbProbe", "exited"} /\ sEmbedder = NoProvider

C19_Probes(provider) == {i \in 1..Len(rcalls) : rcalls[i].arg = provider}

C19_Failed(provider) == {i \in C19_Probes(provider) : ~rcalls[i].ok}

C19_Running == IF svcPc = "embProbe" THEN "embedder" ELSE "vectordb"

C20_BadFlags ==
    /\ cliPc \notin {"off", "flags"}
    /\ \/ cliFlags.project # "" /\ cliFlags.all
       \/ cliFlags.project = "" /\ ~cliFlags.all

C20_BadFlagsRejected ==
    C20_BadFlags =>
        /\ cliLog = <<>>
        /\ cliPc \in {"validate", "exited"}
        /\ cliPc = "exited" => cliExit = 1

(***************************************************************************)
(* C21: after every indexing run, the chunk ids of each cache entry and    *)
(* the keys of its chunk hashes are the same set, in the cache of the run  *)
(* and in the cache file.                                                  *)
(***************************************************************************)
C21_Agree(entries) ==
    \A p \in DOMAIN entries :
        Range(entries[p].ChunkIDs) = DOMAIN ChunkHashesOf(entries[p])

C21_ChunkIDsMatchChunkHashes ==
    RunDone => C21_Agree(cache) /\ C21_Agree(cacheFile)

(***************************************************************************)
(* Vocabulary of the cache properties.                                     *)
(***************************************************************************)
(* The map after the first n writes of the lock order. *)
RECURSIVE Replay(_, _, _)
Replay(start, log, n) ==
    IF n = 0 THEN start
    ELSE ApplyWrite(Replay(start, log, n - 1), log[n])

(* The chunk ids of all the entries of a map, counted. *)
RECURSIVE ChunkCount(_)
ChunkCount(entries) ==
    IF DOMAIN entries = {} THEN 0
    ELSE LET p == CHOOSE q \in DOMAIN entries : TRUE
         IN  Len(entries[p].ChunkIDs) + ChunkCount(CacheDelete(entries, p))

(* What a read returns when it is given the whole map at once. *)
ViewOf(op, filePath, entries) ==
    CASE op = "Get"         -> Get(entries, filePath)
      [] op = "GetAllFiles" -> DOMAIN entries
      [] op = "Stats"       -> [FileCount  |-> Cardinality(DOMAIN entries),
                                ChunkCount |-> ChunkCount(entries)]

(***************************************************************************)
(* C22  Concurrent Set from several goroutines with concurrent Get,        *)
(* GetAllFiles and Stats: the writes are serialized by the lock (at most   *)
(* one writer holds it, and no reader while a writer does), no update is   *)
(* lost (once no writer holds the lock, the map is the result of applying  *)
(* the writes in the order in which they took the lock), and every read    *)
(* returns what a map produced by a prefix of the serialized writes gives. *)
(***************************************************************************)
C22_Serialized ==
    /\ mu.writers <= 1
    /\ mu.writers = 1 => mu.readers = 0

C22_NoLostUpdate ==
    mu.writers = 0 => cEntries = Replay(cStart, lockLog, Len(lockLog))

C22_ReadsSeePrefix ==
    lastRead.op \in {"Get", "GetAllFiles", "Stats"} =>
        \E n \in 0..Len(lockLog) :
            lastRead.value =
                ViewOf(lastRead.op, lastRead.path, Replay(cStart, lockLog, n))

C22_ConcurrentAccess ==
    C22_Serialized /\ C22_NoLostUpdate /\ C22_ReadsSeePrefix

(* A Set has been applied, a GetAllFiles is in the middle of its range and *)
(* another Set waits for the lock.                                         *)
C22_Witness ==
    /\ lockLog # <<>>
    /\ lockLog[1].op = "Set"
    /\ \E g, h \in Goroutines :
          /\ gor[g].op = "GetAllFiles"
          /\ gor[g].stage = "read"
          /\ gor[g].visited # {}
          /\ gor[h].op = "Set"
          /\ gor[h].stage = "lock"

(***************************************************************************)
(* C23  After any sequence of Set, Delete and Clear followed by a Save     *)
(* that returned nil, a new NewCache for the same directory and project    *)
(* holds the same map from path to entry as the saved cache: the same      *)
(* paths, and for each the same content hash, chunk ids and chunk hashes.  *)
(***************************************************************************)
C23_SameMap(x, y) ==
    /\ DOMAIN x = DOMAIN y
    /\ \A p \in DOMAIN x :
          /\ x[p].ContentHash = y[p].ContentHash
          /\ x[p].ChunkIDs = y[p].ChunkIDs
          /\ ChunkHashesOf(x[p]) = ChunkHashesOf(y[p])

C24_Before == Replay(cStart, lockLog, lastRead.at)

C24_LastWrite == lockLog[lastRead.at]

C24_HasChanged ==
    lastRead.op = "HasChanged" =>
        /\ lastRead.value =
              (\/ lastRead.path \notin DOMAIN C24_Before
               \/ C24_Before[lastRead.path].ContentHash # lastRead.hash)
        /\ lastRead.at > 0 =>
              /\ (/\ C24_LastWrite.op = "Set"
                  /\ C24_LastWrite.path = lastRead.path
                  /\ C24_LastWrite.entry.ContentHash = lastRead.hash)
                    => lastRead.value = FALSE
              /\ (\/ C24_LastWrite.op = "Clear"
                  \/ /\ C24_LastWrite.op = "Delete"
                     /\ C24_LastWrite.path = lastRead.path)
                    => lastRead.value = TRUE

(* The entry was deleted and set again: HasChanged is false for its hash. *)
C24_Witness ==
    /\ lastRead.op = "HasChanged"
    /\ lastRead.at = 2
    /\ lockLog[1].op \in {"Delete", "Clear"}
    /\ lockLog[2].op = "Set"
    /\ lockLog[2].path = lastRead.path
    /\ lockLog[2].entry.ContentHash = lastRead.hash
    /\ lastRead.value = FALSE

(***************************************************************************)
(* Vocabulary of the chunker properties.                                   *)
(***************************************************************************)
Tuples(chunks) ==
    [i \in 1..Len(chunks) |->
        <<chunks[i].ID, chunks[i].ContentHash,
          chunks[i].StartLine, chunks[i].EndLine>>]

SymbolBased == src.lang \in {"go", "ts", "php"}

HasLarge == \E i \in 1..Len(syms) : syms[i].tokens >= src.cfg.MinTokens

(***************************************************************************)
(* C25: for every chunker and every input, two invocations of Chunk on the *)
(* same bytes, metadata and configuration give the same ordered sequence   *)
(* of (id, content_hash, start_line, end_line), whatever the orders in     *)
(* which the two invocations range over the by-line map.                   *)
(***************************************************************************)
C25_Deterministic ==
    cpc = "chunked" => Tuples(out) = Tuples(out2)

(* A regex-chunked file with two anchors or more, so that the by-line map *)
(* has more than one iteration order.                                      *)
C25_Witness ==
    /\ cpc = "chunked"
    /\ src.lang \in {"ts", "php"}
    /\ Cardinality(IterationOrders(src.lang, src.lines)) >= 2
    /\ Len(out) >= 2

(***************************************************************************)
(* C26: the chunks emitted for one file, sorted by start_line, have        *)
(* pairwise disjoint line ranges: each chunk starts after the previous     *)
(* chunk's end.                                                            *)
(***************************************************************************)
C26_LineRangesDisjoint ==
    cpc = "chunked" =>
        LET sorted == SortBy(out, "StartLine")
        IN  \A i \in 1..(Len(sorted) - 1) :
                sorted[i + 1].StartLine > sorted[i].EndLine

(***************************************************************************)
(* C27: with merge_small_chunks, in a symbol-based chunker a file with a   *)
(* large symbol does not end with a chunk below min_tokens, and a file of  *)
(* several symbols none of which is large is emitted as one chunk of type  *)
(* combined.                                                               *)
(***************************************************************************)
C27_TrailingSmallRun ==
    (cpc = "chunked" /\ SymbolBased /\ src.cfg.MergeSmallChunks
        /\ Len(syms) >= 2) =>
        IF HasLarge
        THEN out[Len(out)].TokenCount >= src.cfg.MinTokens
        ELSE Len(out) = 1 /\ out[1].SymbolType = "combined"

(***************************************************************************)
(* C28: in a run that is not cancelled, every queued file is received by   *)
(* one worker and gives one result to the collector; a worker holding a    *)
(* file can always send its result; under fair scheduling processFiles     *)
(* ends, after all the workers have returned and the result channel was    *)
(* closed, with files_indexed plus the per-file errors equal to the number *)
(* of queued files.                                                        *)
(***************************************************************************)
(* Where the file of path p is during processFiles: waiting in the work   *)
(* channel, held by a worker, in the result channel, or collected.         *)
C28_Places(p) ==
    Cardinality({i \in 1..Len(workCh) : workCh[i].relPath = p})
    + Cardinality({i \in 1..Len(resultCh) : resultCh[i].relPath = p})
    + Cardinality({i \in 1..Len(procResult.errors) :
                      procResult.errors[i] = <<"file", p>>})
    + (IF p \in indexed THEN 1 ELSE 0)
    + BagCardinality([f \in {g \in BagToSet(wheld) : g.relPath = p} |->
                         CopiesIn(f, wheld)])

C28_FileErrors ==
    Cardinality({i \in 1..Len(procResult.errors) :
                    \E p \in Paths : procResult.errors[i] = <<"file", p>>})

C28_OncePerFile ==
    (pc = "process" /\ ~cancelled) =>
        /\ \A i \in 1..Len(queued) : C28_Places(queued[i].relPath) = 1
        /\ procResult.filesIndexed = Cardinality(indexed)
        /\ BagCardinality(wheld) > 0 => Len(resultCh) < Len(queued)
        /\ widle + BagCardinality(wheld) + wexited = workerCount
        /\ resultClosed => (workCh = <<>> /\ wexited = workerCount)

C28_AllAccounted ==
    (RunDone /\ ~cancelled /\ Len(queued) > 0) =>
        /\ resultClosed
        /\ wexited = workerCount
        /\ result.FilesIndexed + C28_FileErrors = Len(queued)

C30_ChunkIDsDistinct ==
    cpc = "chunked" =>
        /\ \A i, j \in 1..Len(out) : i # j => out[i].ID # out[j].ID
        /\ Cardinality(StoreUpsert({}, [i \in 1..Len(out) |-> PointOf(out[i])]))
               = Len(out)

====
